---- MODULE Spec2Model ----
(***************************************************************************)
(* Model of the product integration pipeline.                              *)
(*                                                                         *)
(*   - the embedding-based greedy matcher, src/4_matching/matching.py      *)
(*   - the two-phase field matcher, src/5_matching/testing/matching_test.py*)
(*   - the page handling of the scrapers, src/1_scraping                   *)
(*   - the batch loop and the retry function of the annotation stages,     *)
(*     src/2_categorization, src/3_specs_to_json, src/4_name_extraction    *)
(*                                                                         *)
(* and of the functions the matchers are built from: the record normalizer *)
(* (clean_text, the flattening of the JSON specification payload), the     *)
(* token-overlap guard, the spec overlap score and the CSV loader.  A run  *)
(* executes one program (the variable matcher names it) or the calls of    *)
(* one function.                                                           *)
(*                                                                         *)
(* Conventions.  Python lists are sequences, so positions are 1-based:     *)
(* catalog index i of the source is position i+1 here.  Similarity scores  *)
(* are integers in tenths (8 stands for 0.8).  Text is a sequence of       *)
(* one-character strings.                                                  *)
(***************************************************************************)
EXTENDS Integers, Sequences, FiniteSets, TLC

VARIABLES
    matcher,                \* which of the two programs this run executes
    pc,                     \* position of the run inside match_products
    \* ---- embedding matcher (src/4_matching/matching.py) ----
    top_k, title_threshold, spec_threshold,
    specs_clean2,           \* df2["Specs_clean"], one cleaned string per B item
    i,                      \* number of A items the outer loop has processed
    title_row,              \* title_similarity_matrix[i] of the item processed last
    spec_row,               \* spec cosine similarity of that item to every B item
    specs1_clean_str,       \* df1.iloc[i]["Specs_clean"] of that item
    candidate_indices,      \* np.argsort(...)[-top_k:][::-1] of that item
    matched_store2_indices,
    merged_rows,
    \* ---- second run of the embedding matcher on the same inputs, with
    \*      raised thresholds (used by SpecMono only) ----
    title_threshold_hi, spec_threshold_hi,
    matched_store2_indices_hi, merged_rows_hi,
    \* ---- field matcher (src/5_matching/testing/matching_test.py) ----
    products1, products2,   \* the two lists load_products returned
    spec_similarity_threshold,
    model_name_map,         \* dict: norm_model_name -> list of B products
    p1,                     \* number of A products phase 1 has processed
    still_unmatched1,
    matches,
    still_unmatched2,
    category_map,           \* dict: norm_category -> list of leftover B products
    matched_in_phase2_ids,
    p2,                     \* number of leftover A products phase 2 has processed
    \* ---- one call of a function of either program ----
    fn_args,                \* the arguments of the call
    fn_result,              \* what the call returned or raised
    \* ---- the scrapers (src/1_scraping) ----
    semaphore,              \* the value of asyncio.Semaphore(CONCURRENCY_LIMIT)
    open_pages,             \* pages of the browser context opened and not closed
    page_tasks,             \* number of scraping coroutines at each position
    \* ---- the annotation stages (src/2_categorization, src/3_specs_to_json,
    \*      src/4_name_extraction) ----
    df,                     \* the table in memory, one record per row
    saved,                  \* the rows of the output file on disk
    pending,                \* pending_df: the indices of the rows to annotate
    batch_start,            \* the loop variable "start" of the loop over the batches
    written,                \* the number of results of the batch written into df
    tasks,                  \* the coroutines of the batch handed to asyncio.gather
    sent                    \* the rows a request was sent for to the annotation service

embedVars == <<top_k, title_threshold, spec_threshold, specs_clean2, i,
               title_row, spec_row, specs1_clean_str, candidate_indices,
               matched_store2_indices, merged_rows>>

hiVars == <<title_threshold_hi, spec_threshold_hi,
            matched_store2_indices_hi, merged_rows_hi>>

fieldVars == <<products1, products2, spec_similarity_threshold, model_name_map,
               p1, still_unmatched1, matches, still_unmatched2, category_map,
               matched_in_phase2_ids, p2>>

fnVars == <<fn_args, fn_result>>

scrapeVars == <<semaphore, open_pages, page_tasks>>

annotVars == <<df, saved, pending, batch_start, written, tasks, sent>>

stageVars == <<scrapeVars, annotVars>>

vars == <<matcher, pc, embedVars, hiVars, fieldVars, fnVars, stageVars>>

\* the variables of the stages that are not running
IdleStages ==
    /\ semaphore = 0
    /\ open_pages = 0
    /\ page_tasks = <<>>
    /\ df = <<>>
    /\ saved = <<>>
    /\ pending = <<>>
    /\ batch_start = 0
    /\ written = 0
    /\ tasks = <<>>
    /\ sent = {}

-----------------------------------------------------------------------------
(* Bounds of the model *)

\* number of items of catalog A (Store 1) in the embedding run
NumA == 2

\* number of items of catalog B (Store 2) in the embedding run
NumB == 2

\* largest number of products of the first file in the field matcher run
MaxProducts1 == 2

\* largest number of products of the second file in the field matcher run
MaxProducts2 == 3

-----------------------------------------------------------------------------
(* Generic helpers *)

Max(a, b) == IF a >= b THEN a ELSE b

Min(a, b) == IF a <= b THEN a ELSE b

Range(s) == {s[n] : n \in DOMAIN s}

Reverse(s) == [n \in 1..Len(s) |-> s[Len(s) + 1 - n]]

\* all orderings (without repetition) of the positions 1..n
Orderings(n) == {p \in [1..n -> 1..n] : \A a, b \in 1..n : a # b => p[a] # p[b]}

-----------------------------------------------------------------------------
(* Text: character classes of the regular expressions used by the source *)

Digits == {"0", "1", "2", "3", "4", "6"}

LowerLetters == {"a", "b", "c", "d", "e", "f", "g", "m", "o", "r", "s", "t", "v", "x", "y"}

UpperLetters == {"A", "B", "G", "M", "R", "T", "V", "X", "Y"}

\* [a-zA-Z0-9]
AsciiAlnum == Digits \cup LowerLetters \cup UpperLetters

\* \w : the ASCII alphanumerics and the underscore
WordChars == AsciiAlnum \cup {"_"}

\* str.lower() on one character
LowerChar(c) ==
    CASE c = "A" -> "a" [] c = "B" -> "b" [] c = "G" -> "g" [] c = "M" -> "m"
      [] c = "R" -> "r" [] c = "T" -> "t" [] c = "V" -> "v" [] c = "X" -> "x"
      [] c = "Y" -> "y" [] OTHER -> c

\* str.lower()
Lower(s) == [n \in 1..Len(s) |-> LowerChar(s[n])]

\* the maximal runs of \w characters of s, in order
RECURSIVE WordRuns(_, _, _)
WordRuns(s, pos, cur) ==
    IF pos > Len(s)
    THEN IF cur = <<>> THEN <<>> ELSE <<cur>>
    ELSE IF s[pos] \in WordChars
         THEN WordRuns(s, pos + 1, Append(cur, s[pos]))
         ELSE (IF cur = <<>> THEN <<>> ELSE <<cur>>) \o WordRuns(s, pos + 1, <<>>)

\* re.findall(r'\b[a-zA-Z0-9]*\d[a-zA-Z0-9]*\b', s): a match is delimited by
\* word boundaries on both sides, so it is a whole run of \w characters, all
\* of them ASCII alphanumerics and at least one a digit
ModelTokens(s) ==
    {w \in Range(WordRuns(s, 1, <<>>)) :
        /\ \A n \in 1..Len(w) : w[n] \in AsciiAlnum
        /\ \E n \in 1..Len(w) : w[n] \in Digits}

-----------------------------------------------------------------------------
(* Embedding matcher: inputs *)

\* values title_similarity_matrix[i][j] takes (0.8, 0.9)
TitleScores == {8, 9}

\* values the spec cosine similarity takes (0.8, 1.0)
SpecScores == {8, 10}

\* values of the title_threshold argument: the default 0.5, and 0.9
TitleThresholds == {5, 9}

\* values of the spec_threshold argument: the default 0.8, and 0.9
SpecThresholds == {8, 9}

\* values of the top_k argument: 1, and the default 3
TopKs == {1, 3}

\* cleaned specification strings (df["Specs_clean"])
Specs16 == <<"1", "6", "g", "b", " ", "r", "a", "m", " ", "m", "e", "m", "o", "r", "y">>

Specs32 == <<"3", "2", "g", "b", " ", "r", "a", "m", " ", "m", "e", "m", "o", "r", "y">>

\* exactly 10 characters, no token in common with the two above
SpecsTen == <<"6", "4", "g", "b", " ", "r", "a", "m", " ", "x">>

\* more than 10 characters, no token with a digit
SpecsPlain == <<"f", "a", "s", "t", " ", "m", "e", "m", "o", "r", "y">>

\* Specs_clean values of the items of catalog A
SpecsCleanPool1 == {Specs16, Specs32, SpecsTen, SpecsPlain}

\* Specs_clean values of the items of catalog B
SpecsCleanPool2 == {Specs16}

-----------------------------------------------------------------------------
(* Token-overlap guard, src/4_matching/matching.py *)

\* set(re.findall(regex, s.lower())) of the strings of the two pools, computed
\* once
PoolTokens ==
    [s \in SpecsCleanPool1 \cup SpecsCleanPool2 |-> ModelTokens(Lower(s))]

\* set(re.findall(regex, s.lower()))
TokenSet(s) ==
    IF s \in DOMAIN PoolTokens THEN PoolTokens[s] ELSE ModelTokens(Lower(s))

\* the same function answering True only for two non-empty token sets
have_no_shared_model_tokens_both_tokened(spec1_clean_str, spec2_clean_str) ==
    LET tokens1 == TokenSet(spec1_clean_str)
        tokens2 == TokenSet(spec2_clean_str)
    IN  tokens1 # {} /\ tokens2 # {} /\ tokens1 \cap tokens2 = {}

\* the same function testing only whether every token of the first string
\* is a token of the second
have_no_shared_model_tokens_one_sided(spec1_clean_str, spec2_clean_str) ==
    LET tokens1 == TokenSet(spec1_clean_str)
        tokens2 == TokenSet(spec2_clean_str)
    IN  Cardinality(tokens1 \ tokens2) > 0

\* the same function with the length test of its caller moved into it
have_no_shared_model_tokens_length_tested(spec1_clean_str, spec2_clean_str) ==
    LET tokens1 == TokenSet(spec1_clean_str)
        tokens2 == TokenSet(spec2_clean_str)
    IN  /\ Len(spec1_clean_str) > 10
        /\ Len(spec2_clean_str) > 10
        /\ Cardinality(tokens1 \cap tokens2) = 0

have_no_shared_model_tokens(spec1_clean_str, spec2_clean_str) ==
    LET tokens1 == TokenSet(spec1_clean_str)
        tokens2 == TokenSet(spec2_clean_str)
    IN  Cardinality(tokens1 \cap tokens2) = 0

-----------------------------------------------------------------------------
(* Embedding matcher: match_products, src/4_matching/matching.py *)

\* length above which both spec strings are subjected to the token guard
MinSpecLen == 10

\* np.argsort(row): a permutation of the positions that sorts row ascending;
\* the order in which equal values come out is not fixed by the default sort
ArgsortResults(row) ==
    {p \in Orderings(Len(row)) :
        \A a \in 1..(Len(row) - 1) : row[p[a]] <= row[p[a + 1]]}

\* start offset of the Python slice seq[-k:] on a sequence of length n
SliceStart(n, k) == IF k > 0 THEN Max(n - k, 0) ELSE Min(0 - k, n)

\* np.argsort(row)[-top_k:][::-1], given the result of argsort
CandidateIndices(sorted, k) ==
    Reverse(SubSeq(sorted, SliceStart(Len(sorted), k) + 1, Len(sorted)))

\* the values candidate_indices can take for a row of title similarities
CandidateLists(row, k) ==
    {CandidateIndices(sorted, k) : sorted \in ArgsortResults(row)}

\* best_match_for_product_i = None
NoMatch == [index_store2 |-> 0, title_sim |-> 0, spec_sim |-> 0]

\* highest_overall_score = -1, in the unit of combined_score (half a tenth)
InitialHighest == -20

\* mutant: the candidates are ranked by their title score alone
combined_score_title_only(current_title_score, current_spec_score) ==
    2 * current_title_score

\* combined_score = (current_title_score + current_spec_score) / 2.0, kept as
\* the numerator: the unit is half a tenth
combined_score(current_title_score, current_spec_score) ==
    current_title_score + current_spec_score

\* mutant: the claimed B items are not skipped
AlreadyMatched_never(j, matched) == FALSE

\* if j in matched_store2_indices: continue
AlreadyMatched(j, matched) == j \in matched

\* if current_title_score < title_threshold: break
BelowTitleThreshold(current_title_score, threshold) ==
    current_title_score < threshold

\* mutant: the spec threshold is not enforced
BelowSpecThreshold_never(current_spec_score, threshold) == FALSE

\* if current_spec_score < spec_threshold: continue
BelowSpecThreshold(current_spec_score, threshold) ==
    current_spec_score < threshold

\* the same guard without the test of the two lengths
GuardRejects_any_length(specs1, specs2) ==
    have_no_shared_model_tokens(specs1, specs2)

\* the guard of lines 132-134
GuardRejects(specs1, specs2) ==
    /\ Len(specs1) > MinSpecLen
    /\ Len(specs2) > MinSpecLen
    /\ have_no_shared_model_tokens(specs1, specs2)

\* the inner loop "for j in candidate_indices", from position pos on; c holds
\* what the loop reads: title_row, spec_row, specs1, specs2, matched and the
\* two thresholds.  Returns best_match_for_product_i.
RECURSIVE ScanCandidates(_, _, _, _, _)
ScanCandidates(c, cands, pos, best, highest) ==
    IF pos > Len(cands)
    THEN best
    ELSE LET j == cands[pos]
             current_title_score == c.title_row[j]
             current_spec_score == c.spec_row[j]
             combined == combined_score(current_title_score, current_spec_score)
         IN  IF AlreadyMatched(j, c.matched)
             THEN ScanCandidates(c, cands, pos + 1, best, highest)
             ELSE IF BelowTitleThreshold(current_title_score, c.title_threshold)
             THEN best
             ELSE IF BelowSpecThreshold(current_spec_score, c.spec_threshold)
             THEN ScanCandidates(c, cands, pos + 1, best, highest)
             ELSE IF GuardRejects(c.specs1, c.specs2[j])
             THEN ScanCandidates(c, cands, pos + 1, best, highest)
             ELSE IF combined > highest
             THEN ScanCandidates(c, cands, pos + 1,
                                 [index_store2 |-> j,
                                  title_sim |-> current_title_score,
                                  spec_sim |-> current_spec_score],
                                 combined)
             ELSE ScanCandidates(c, cands, pos + 1, best, highest)

\* one iteration of "for i in range(len(df1))" up to the commit decision
BestMatchFor(trow, srow, s1, cands, matched, tthr, sthr) ==
    ScanCandidates([title_row |-> trow, spec_row |-> srow, specs1 |-> s1,
                    specs2 |-> specs_clean2, matched |-> matched,
                    title_threshold |-> tthr, spec_threshold |-> sthr],
                   cands, 1, NoMatch, InitialHighest)

\* matched_store2_indices.add(idx_store2)
CommitIndex(matched, best) ==
    IF best # NoMatch THEN matched \cup {best.index_store2} ELSE matched

\* the columns the row of a match reads with ["..."], lines 151-160; the
\* other columns are read with .get and may be absent
RowColumns == {"Title", "Link", "extracted_specs"}

\* the headers of df1 and df2: those of the two input files when the run
\* started from files (fn_args holds them), and complete ones otherwise
CatalogColumns ==
    IF Len(fn_args) = 2
    THEN <<fn_args[1].columns, fn_args[2].columns>>
    ELSE <<RowColumns, RowColumns>>

\* lines 157-158: df1.iloc[i]["Link"] or df2.iloc[idx_store2]["Link"] raises
\* KeyError while the row is built
RowRaises == \E n \in 1..2 : ~(RowColumns \subseteq CatalogColumns[n])

\* merged_rows.append({...}) for item number a of catalog A; nothing is
\* appended when building the row raises
CommitRow(rows, a, best) ==
    IF best # NoMatch /\ ~RowRaises
    THEN Append(rows, [index_store1 |-> a,
                       index_store2 |-> best.index_store2,
                       Title_Similarity_Score |-> best.title_sim,
                       Specs_Similarity_Score |-> best.spec_sim])
    ELSE rows

InitEmbedding ==
    /\ matcher = "embedding"
    /\ pc = "loop"
    /\ top_k \in TopKs
    /\ title_threshold \in TitleThresholds
    /\ spec_threshold \in SpecThresholds
    /\ specs_clean2 \in [1..NumB -> SpecsCleanPool2]
    /\ i = 0
    /\ title_row = <<>>
    /\ spec_row = <<>>
    /\ specs1_clean_str = <<>>
    /\ candidate_indices = <<>>
    /\ matched_store2_indices = {}
    /\ merged_rows = <<>>

\* the single-run specifications leave the second run idle
InitHiIdle ==
    /\ title_threshold_hi = title_threshold
    /\ spec_threshold_hi = spec_threshold
    /\ matched_store2_indices_hi = {}
    /\ merged_rows_hi = <<>>

\* the body of "for i in range(len(df1))" for the next item of catalog A,
\* whose row of similarities and cleaned spec string are the inputs; when
\* building the row of a match raises, match_products is left with the index
\* added and no row appended
EmbedLoopBody ==
    /\ matcher = "embedding"
    /\ pc = "loop"
    /\ i < NumA
    /\ \E trow \in [1..NumB -> TitleScores], srow \in [1..NumB -> SpecScores],
          s1 \in SpecsCleanPool1 :
         \E cands \in CandidateLists(trow, top_k) :
            LET best == BestMatchFor(trow, srow, s1, cands, matched_store2_indices,
                                     title_threshold, spec_threshold)
            IN  /\ title_row' = trow
                /\ spec_row' = srow
                /\ specs1_clean_str' = s1
                /\ candidate_indices' = cands
                /\ matched_store2_indices' = CommitIndex(matched_store2_indices, best)
                /\ merged_rows' = CommitRow(merged_rows, i + 1, best)
                /\ IF best # NoMatch /\ RowRaises
                   THEN pc' = "raised" /\ UNCHANGED i
                   ELSE pc' = "next" /\ i' = i + 1
    /\ UNCHANGED <<stageVars, fnVars, matcher, top_k, title_threshold, spec_threshold,
                   specs_clean2, hiVars, fieldVars>>

\* line 106: the loop goes on to the next item of catalog A, whose row of
\* similarities has not been read yet
EmbedNextItem ==
    /\ matcher = "embedding"
    /\ pc = "next"
    /\ i < NumA
    /\ title_row' = <<>>
    /\ spec_row' = <<>>
    /\ specs1_clean_str' = <<>>
    /\ candidate_indices' = <<>>
    /\ pc' = "loop"
    /\ UNCHANGED <<stageVars, fnVars, matcher, top_k, title_threshold, spec_threshold, specs_clean2,
                   i, matched_store2_indices, merged_rows, hiVars, fieldVars>>

\* results_df.to_csv(output_file): the loop is over, the rows are written
EmbedWrite ==
    /\ matcher = "embedding"
    /\ pc = "next"
    /\ i = NumA
    /\ pc' = "done"
    /\ UNCHANGED <<stageVars, fnVars, matcher, embedVars, hiVars, fieldVars>>

-----------------------------------------------------------------------------
(* Field matcher: values, src/5_matching/testing/matching_test.py *)

\* a CSV field or JSON value that is a string
Str(text) == [kind |-> "str", text |-> text]

\* a JSON number, by its canonical text
Num(text) == [kind |-> "num", text |-> text]

\* Python None: a missing CSV field, a JSON null, the result of dict.get on
\* a missing key
None == [kind |-> "none", text |-> <<>>]

\* re.sub(r'[\W_]+', '', text): only the letters and digits stay
RECURSIVE StripNonAlnum(_)
StripNonAlnum(text) ==
    IF text = <<>> THEN <<>>
    ELSE IF Head(text) \in AsciiAlnum
         THEN <<Head(text)>> \o StripNonAlnum(Tail(text))
         ELSE StripNonAlnum(Tail(text))

normalize_text(text) ==
    IF text.kind # "str" THEN <<>>
    ELSE Lower(StripNonAlnum(text.text))

\* the whitespace characters of str.strip() and of \s
Whitespace == {" ", "\t"}

\* str.lstrip()
RECURSIVE LStrip(_)
LStrip(text) ==
    IF text # <<>> /\ Head(text) \in Whitespace THEN LStrip(Tail(text)) ELSE text

\* str.strip()
Strip(text) == Reverse(LStrip(Reverse(LStrip(text))))

\* dict.get(key)
Get(specs, key) == IF key \in DOMAIN specs THEN specs[key] ELSE None

\* lines 47-50: a string value is lower-cased and stripped, any other value
\* is compared as it is
ComparableValue(val) ==
    IF val.kind = "str" THEN Str(Strip(Lower(val.text))) ELSE val

\* a score matching_values / len(all_keys), kept as a fraction
Fraction(n, d) == [num |-> n, den |-> d]

\* a > b on fractions with positive denominators
Greater(a, b) == a.num * b.den > b.num * a.den

\* the same function with the test of the union placed before the test of the
\* two maps, so that two empty maps score 1
calculate_spec_similarity_union_first(specs1, specs2) ==
    LET all_keys == DOMAIN specs1 \cup DOMAIN specs2
        matching_values ==
            Cardinality({key \in all_keys :
                ComparableValue(Get(specs1, key)) = ComparableValue(Get(specs2, key))})
    IN  IF all_keys = {}
        THEN Fraction(1, 1)
        ELSE IF DOMAIN specs1 = {} \/ DOMAIN specs2 = {}
             THEN Fraction(0, 1)
             ELSE Fraction(matching_values, Cardinality(all_keys))

calculate_spec_similarity(specs1, specs2) ==
    IF DOMAIN specs1 = {} \/ DOMAIN specs2 = {}
    THEN Fraction(0, 1)
    ELSE LET all_keys == DOMAIN specs1 \cup DOMAIN specs2
             matching_values ==
                 Cardinality({key \in all_keys :
                     ComparableValue(Get(specs1, key)) = ComparableValue(Get(specs2, key))})
         IN  IF all_keys = {}
             THEN Fraction(1, 1)
             ELSE Fraction(matching_values, Cardinality(all_keys))

-----------------------------------------------------------------------------
(* Field matcher: inputs *)

TextRed == Str(<<"R", "e", "d">>)

TextRedPadded == Str(<<"r", "e", "d", " ">>)

Text16 == Str(<<"1", "6">>)

Text32 == Str(<<"3", "2">>)

\* extracted_specs maps: SpecsP and SpecsQ agree on one of their two keys
SpecsP == [color |-> TextRed, ram |-> Text16]

SpecsQ == [color |-> TextRedPadded, ram |-> Text32]

SpecsEmpty == <<>>

\* the row load_products appends: the CSV fields and the two normalized ones
\* (the 'id' of a product is its position in its list)
Product(model_name, category, specs) ==
    [Model_Name |-> model_name, Category |-> category, extracted_specs |-> specs,
     norm_model_name |-> normalize_text(model_name),
     norm_category |-> normalize_text(category)]

NameX1 == Str(<<"X", "-", "1">>)

NameX1Plain == Str(<<"x", "1">>)

NameDash == Str(<<"-">>)

NameY2 == Str(<<"Y", "2">>)

CategoryTV == Str(<<"T", "V">>)

CategoryTVLower == Str(<<"t", "v">>)

CategoryAV == Str(<<"A", "V">>)

\* products of the first file
ProductPool1 ==
    { Product(NameX1Plain, CategoryTVLower, SpecsP),
      Product(None, CategoryTV, SpecsP),
      Product(NameY2, CategoryTV, SpecsQ),
      Product(NameX1, CategoryAV, SpecsEmpty) }

\* products of the second file
ProductPool2 ==
    { Product(NameX1, CategoryTV, SpecsP),
      Product(NameX1Plain, CategoryTVLower, SpecsQ),
      Product(NameDash, CategoryTV, SpecsP),
      Product(NameY2, CategoryTV, SpecsP),
      Product(NameX1Plain, CategoryAV, SpecsP),
      Product(NameY2, CategoryTVLower, SpecsEmpty) }

\* values of the spec_similarity_threshold argument: the default 0.8, and 0.5
FieldThresholds == {Fraction(4, 5), Fraction(1, 2)}

\* the non-empty lists of at most n elements of S
ListsUpTo(S, n) == UNION {[1..m -> S] : m \in 1..n}

-----------------------------------------------------------------------------
(* Field matcher: match_products, src/5_matching/testing/matching_test.py *)

\* A dict is the sequence of its entries [key, prods] in insertion order; the
\* products in it are held by their position in their list.

HasKey(map, key) == \E n \in 1..Len(map) : map[n].key = key

\* the same lookup returning the list of the first key of the dict
Lookup_first_key(map, key) == map[1].prods

\* map[key] for a key of the dict
Lookup(map, key) == (CHOOSE e \in Range(map) : e.key = key).prods

\* map[key].append(product) on a defaultdict(list)
AppendTo(map, key, product) ==
    IF HasKey(map, key)
    THEN [n \in 1..Len(map) |->
            IF map[n].key = key
            THEN [key |-> key, prods |-> Append(map[n].prods, product)]
            ELSE map[n]]
    ELSE Append(map, [key |-> key, prods |-> <<product>>])

\* list.remove(x): the list without the first occurrence of x
RECURSIVE Remove(_, _)
Remove(list, x) ==
    IF list = <<>> THEN <<>>
    ELSE IF Head(list) = x THEN Tail(list)
         ELSE <<Head(list)>> \o Remove(Tail(list), x)

\* mutant: the committed B product stays in its group
RemoveFrom_nothing(map, key, product) == map

\* map[key].remove(product)
RemoveFrom(map, key, product) ==
    [n \in 1..Len(map) |->
        IF map[n].key = key
        THEN [key |-> key, prods |-> Remove(map[n].prods, product)]
        ELSE map[n]]

\* "for product in list: map[product[field]].append(product)", from pos on;
\* key_of[product] is the value of the field
RECURSIVE GroupInto(_, _, _, _)
GroupInto(map, list, pos, key_of) ==
    IF pos > Len(list) THEN map
    ELSE GroupInto(AppendTo(map, key_of[list[pos]], list[pos]), list, pos + 1, key_of)

\* mutant: the leftover products are collected group by group in reverse
RECURSIVE Values_reversed(_)
Values_reversed(map) ==
    IF map = <<>> THEN <<>> ELSE Values_reversed(Tail(map)) \o Head(map).prods

\* [prod for prods in map.values() for prod in prods]
RECURSIVE Values(_)
Values(map) ==
    IF map = <<>> THEN <<>> ELSE Head(map).prods \o Values(Tail(map))

\* best_match_prod2 = None
NoProduct == 0

\* mutant: phase 1 starts from a best score of 0
Phase1InitialScore_zero == Fraction(0, 1)

\* highest_score = -1 of phase 1
Phase1InitialScore == Fraction(0 - 1, 1)

\* mutant: a candidate that equals the best score replaces it
Improves_or_equals(score, highest_score) == ~Greater(highest_score, score)

\* if score > highest_score
Improves(score, highest_score) == Greater(score, highest_score)

\* the loop "for prod2 in potential_matches" of phase 1, from pos on; returns
\* best_match_prod2 and highest_score
RECURSIVE Phase1Scan(_, _, _, _, _)
Phase1Scan(prod1, potential_matches, pos, best, highest_score) ==
    IF pos > Len(potential_matches)
    THEN [best |-> best, score |-> highest_score]
    ELSE LET prod2 == potential_matches[pos]
             score == calculate_spec_similarity(prod1.extracted_specs,
                                                products2[prod2].extracted_specs)
         IN  IF /\ prod1.norm_category = products2[prod2].norm_category
                /\ Improves(score, highest_score)
             THEN Phase1Scan(prod1, potential_matches, pos + 1, prod2, score)
             ELSE Phase1Scan(prod1, potential_matches, pos + 1, best, highest_score)

\* if prod1['norm_model_name'] in model_name_map
Phase1Considers(prod1, map) == HasKey(map, prod1.norm_model_name)

\* if prod2['id'] in matched_in_phase2_ids: continue
Phase2Skips(prod2, ids) == prod2 \in ids

\* mutant: phase 2 starts from a best score of -1, as phase 1 does
Phase2InitialScore_none(threshold) == Fraction(0 - 1, 1)

\* highest_score = spec_similarity_threshold of phase 2
Phase2InitialScore(threshold) == threshold

\* the loop "for prod2 in potential_matches" of phase 2, from pos on
RECURSIVE Phase2Scan(_, _, _, _, _)
Phase2Scan(prod1, potential_matches, pos, best, highest_score) ==
    IF pos > Len(potential_matches)
    THEN [best |-> best, score |-> highest_score]
    ELSE LET prod2 == potential_matches[pos]
             score == calculate_spec_similarity(prod1.extracted_specs,
                                                products2[prod2].extracted_specs)
         IN  IF Phase2Skips(prod2, matched_in_phase2_ids)
             THEN Phase2Scan(prod1, potential_matches, pos + 1, best, highest_score)
             ELSE IF Improves(score, highest_score)
             THEN Phase2Scan(prod1, potential_matches, pos + 1, prod2, score)
             ELSE Phase2Scan(prod1, potential_matches, pos + 1, best, highest_score)

Match(prod1, prod2, match_type, score) ==
    [product1 |-> prod1, product2 |-> prod2, match_type |-> match_type,
     score |-> score]

InitField ==
    /\ matcher = "field"
    /\ pc = "start"
    /\ products1 \in ListsUpTo(ProductPool1, MaxProducts1)
    /\ products2 \in ListsUpTo(ProductPool2, MaxProducts2)
    /\ spec_similarity_threshold \in FieldThresholds
    /\ model_name_map = <<>>
    /\ p1 = 0
    /\ still_unmatched1 = <<>>
    /\ matches = <<>>
    /\ still_unmatched2 = <<>>
    /\ category_map = <<>>
    /\ matched_in_phase2_ids = {}
    /\ p2 = 0

\* lines 59-67: the lists are copied and catalog B is grouped by model name
BuildModelNameMap ==
    /\ matcher = "field"
    /\ pc = "start"
    /\ model_name_map' =
          GroupInto(<<>>, [n \in 1..Len(products2) |-> n], 1,
                    [prod \in 1..Len(products2) |-> products2[prod].norm_model_name])
    /\ pc' = "phase1"
    /\ UNCHANGED <<stageVars, fnVars, matcher, embedVars, hiVars, products1, products2,
                   spec_similarity_threshold, p1, still_unmatched1, matches,
                   still_unmatched2, category_map, matched_in_phase2_ids, p2>>

\* lines 69-95: the body of "for prod1 in unmatched1" for the next A product
Phase1Iter ==
    /\ matcher = "field"
    /\ pc = "phase1"
    /\ p1 < Len(products1)
    /\ LET prod1 == products1[p1 + 1]
           found == IF Phase1Considers(prod1, model_name_map)
                    THEN Phase1Scan(prod1, Lookup(model_name_map, prod1.norm_model_name),
                                    1, NoProduct, Phase1InitialScore)
                    ELSE [best |-> NoProduct, score |-> Phase1InitialScore]
       IN  IF found.best # NoProduct
           THEN /\ matches' = Append(matches, Match(p1 + 1, found.best,
                                                    "Model Name & Category", found.score))
                /\ model_name_map' = RemoveFrom(model_name_map, prod1.norm_model_name,
                                                found.best)
                /\ UNCHANGED still_unmatched1
           ELSE /\ still_unmatched1' = Append(still_unmatched1, p1 + 1)
                /\ UNCHANGED <<matches, model_name_map>>
    /\ p1' = p1 + 1
    /\ UNCHANGED <<stageVars, fnVars, matcher, pc, embedVars, hiVars, products1, products2,
                   spec_similarity_threshold, still_unmatched2, category_map,
                   matched_in_phase2_ids, p2>>

\* lines 97-103: the leftover B products are collected and grouped by category
BuildCategoryMap ==
    /\ matcher = "field"
    /\ pc = "phase1"
    /\ p1 = Len(products1)
    /\ still_unmatched2' = Values(model_name_map)
    /\ category_map' =
          GroupInto(<<>>, Values(model_name_map), 1,
                    [prod \in 1..Len(products2) |-> products2[prod].norm_category])
    /\ matched_in_phase2_ids' = {}
    /\ pc' = "phase2"
    /\ UNCHANGED <<stageVars, fnVars, matcher, embedVars, hiVars, products1, products2,
                   spec_similarity_threshold, model_name_map, p1, still_unmatched1,
                   matches, p2>>

\* lines 105-127: the body of "for prod1 in still_unmatched1"
Phase2Iter ==
    /\ matcher = "field"
    /\ pc = "phase2"
    /\ p2 < Len(still_unmatched1)
    /\ LET prod1 == products1[still_unmatched1[p2 + 1]]
           potential_matches ==
               IF HasKey(category_map, prod1.norm_category)
               THEN Lookup(category_map, prod1.norm_category)
               ELSE <<>>
           found == Phase2Scan(prod1, potential_matches, 1, NoProduct,
                               Phase2InitialScore(spec_similarity_threshold))
       IN  IF found.best # NoProduct
           THEN /\ matches' = Append(matches, Match(still_unmatched1[p2 + 1], found.best,
                                                    "Category & Specs", found.score))
                /\ matched_in_phase2_ids' = matched_in_phase2_ids \cup {found.best}
           ELSE UNCHANGED <<matches, matched_in_phase2_ids>>
    /\ p2' = p2 + 1
    /\ UNCHANGED <<stageVars, fnVars, matcher, pc, embedVars, hiVars, products1, products2,
                   spec_similarity_threshold, model_name_map, p1, still_unmatched1,
                   still_unmatched2, category_map>>

\* line 129: return matches
FieldReturn ==
    /\ matcher = "field"
    /\ pc = "phase2"
    /\ p2 = Len(still_unmatched1)
    /\ pc' = "done"
    /\ UNCHANGED <<stageVars, fnVars, matcher, embedVars, hiVars, fieldVars>>

\* the variables of the program that is not running
IdleField ==
    /\ products1 = <<>>
    /\ products2 = <<>>
    /\ spec_similarity_threshold = Fraction(4, 5)
    /\ model_name_map = <<>>
    /\ p1 = 0
    /\ still_unmatched1 = <<>>
    /\ matches = <<>>
    /\ still_unmatched2 = <<>>
    /\ category_map = <<>>
    /\ matched_in_phase2_ids = {}
    /\ p2 = 0

\* no single function call is under way
IdleFn ==
    /\ fn_args = <<>>
    /\ fn_result = <<>>

IdleEmbedding ==
    /\ top_k = 0
    /\ title_threshold = 0
    /\ spec_threshold = 0
    /\ specs_clean2 = <<>>
    /\ i = 0
    /\ title_row = <<>>
    /\ spec_row = <<>>
    /\ specs1_clean_str = <<>>
    /\ candidate_indices = <<>>
    /\ matched_store2_indices = {}
    /\ merged_rows = <<>>

-----------------------------------------------------------------------------
(* A run of the embedding matcher on a catalog B whose cleaned spec strings  *)
(* are long with a token, long without a token, or empty; the thresholds are *)
(* the highest of their sets, which some scores pass and some do not         *)

SpecsCleanPoolGuard2 == {Specs16, SpecsPlain, <<>>}

InitEmbeddingGuard ==
    /\ matcher = "embedding"
    /\ pc = "loop"
    /\ top_k \in TopKs
    /\ title_threshold = 9
    /\ spec_threshold = 9
    /\ specs_clean2 \in [1..NumB -> SpecsCleanPoolGuard2]
    /\ i = 0
    /\ title_row = <<>>
    /\ spec_row = <<>>
    /\ specs1_clean_str = <<>>
    /\ candidate_indices = <<>>
    /\ matched_store2_indices = {}
    /\ merged_rows = <<>>

-----------------------------------------------------------------------------
(* Two runs of the embedding matcher on the same catalogs and the same       *)
(* similarity scores, the second with raised thresholds                      *)

InitMono ==
    /\ InitEmbedding
    /\ IdleField
    /\ IdleFn
    /\ IdleStages
    /\ title_threshold_hi \in {t \in TitleThresholds : t >= title_threshold}
    /\ spec_threshold_hi \in {t \in SpecThresholds : t >= spec_threshold}
    /\ <<title_threshold_hi, spec_threshold_hi>> # <<title_threshold, spec_threshold>>
    /\ matched_store2_indices_hi = {}
    /\ merged_rows_hi = <<>>

\* the loop body of both runs for the next item of catalog A
MonoLoopBody ==
    /\ matcher = "embedding"
    /\ pc = "loop"
    /\ i < NumA
    /\ \E trow \in [1..NumB -> TitleScores], srow \in [1..NumB -> SpecScores],
          s1 \in SpecsCleanPool1 :
         \E cands \in CandidateLists(trow, top_k) :
            LET best == BestMatchFor(trow, srow, s1, cands, matched_store2_indices,
                                     title_threshold, spec_threshold)
                best_hi == BestMatchFor(trow, srow, s1, cands,
                                        matched_store2_indices_hi,
                                        title_threshold_hi, spec_threshold_hi)
            IN  /\ title_row' = trow
                /\ spec_row' = srow
                /\ specs1_clean_str' = s1
                /\ candidate_indices' = cands
                /\ matched_store2_indices' = CommitIndex(matched_store2_indices, best)
                /\ merged_rows' = CommitRow(merged_rows, i + 1, best)
                /\ matched_store2_indices_hi' =
                       CommitIndex(matched_store2_indices_hi, best_hi)
                /\ merged_rows_hi' = CommitRow(merged_rows_hi, i + 1, best_hi)
    /\ i' = i + 1
    /\ pc' = "next"
    /\ UNCHANGED <<stageVars, fnVars, matcher, top_k, title_threshold, spec_threshold,
                   specs_clean2, title_threshold_hi, spec_threshold_hi, fieldVars>>

-----------------------------------------------------------------------------
(* Two executions of the embedding matcher, one after the other, with the    *)
(* same parameters and the same catalog B: the first on catalog A, the       *)
(* second on catalog A cut after its first items.  An item of catalog A is   *)
(* held with what lines 85-107 compute from it and from catalog B alone: its *)
(* row of cosine_similarity to the titles of B, its spec similarities to the *)
(* items of B, its Specs_clean and np.argsort of its title row.  fn_args     *)
(* holds catalog A and the number of items the second execution keeps.       *)

\* rows of spec similarities: every item of B passes, or all but the first
TruncSpecRows ==
    {[j \in 1..NumB |-> 10], [j \in 1..NumB |-> IF j = 1 THEN 8 ELSE 10]}

\* the items with a given row of spec similarities
CatalogItems(srow) ==
    UNION {{[title_row |-> trow, spec_row |-> srow, specs_clean |-> Specs16,
             argsort |-> sorted] : sorted \in ArgsortResults(trow)} :
              trow \in [1..NumB -> TitleScores]}

\* the catalogs A: the items have the same Specs_clean, hence the same spec
\* similarities to the items of B
Catalogs == UNION {[1..NumA -> CatalogItems(srow)] : srow \in TruncSpecRows}

\* the same loop visiting the items of the catalog from the last to the first
ItemOfPass_reversed(k, len) == len + 1 - k

\* line 106, "for i in range(len(df1))": the item pass number k visits
ItemOfPass(k, len) == k

\* the catalog A of the first execution
FirstCatalog == fn_args[1].file1

\* the catalog A of the second execution
SecondCatalog == SubSeq(fn_args[1].file1, 1, fn_args[1].cut)

InitTruncated ==
    /\ matcher = "embedding"
    /\ pc = "loop"
    /\ top_k \in TopKs
    /\ title_threshold = 9
    /\ spec_threshold = 9
    /\ specs_clean2 = [j \in 1..NumB |-> Specs16]
    /\ i = 0
    /\ title_row = <<>>
    /\ spec_row = <<>>
    /\ specs1_clean_str = <<>>
    /\ candidate_indices = <<>>
    /\ matched_store2_indices = {}
    /\ merged_rows = <<>>
    /\ InitHiIdle /\ IdleStages
    /\ IdleField
    /\ fn_args \in {<<[file1 |-> catalog, cut |-> n]>> :
                       catalog \in Catalogs, n \in 0..NumA}
    /\ fn_result = <<>>

\* lines 106-167 in the first execution: the loop body for the item of the
\* next pass
FirstRunLoopBody ==
    /\ matcher = "embedding"
    /\ pc = "loop"
    /\ Len(fn_args) = 1
    /\ i < Len(FirstCatalog)
    /\ LET a == ItemOfPass(i + 1, Len(FirstCatalog))
           item == FirstCatalog[a]
           cands == CandidateIndices(item.argsort, top_k)
           best == BestMatchFor(item.title_row, item.spec_row, item.specs_clean,
                                cands, matched_store2_indices,
                                title_threshold, spec_threshold)
       IN  /\ title_row' = item.title_row
           /\ spec_row' = item.spec_row
           /\ specs1_clean_str' = item.specs_clean
           /\ candidate_indices' = cands
           /\ matched_store2_indices' = CommitIndex(matched_store2_indices, best)
           /\ merged_rows' = CommitRow(merged_rows, a, best)
    /\ i' = i + 1
    /\ pc' = "next"
    /\ UNCHANGED <<stageVars, fnVars, matcher, top_k, title_threshold,
                   spec_threshold, specs_clean2, hiVars, fieldVars>>

\* the second execution begins: match_products is called on the cut catalog
\* and reaches its loop; on a catalog without item cosine_similarity raises
\* ValueError at line 94, so the loop is not reached and no file is written
SecondRunStart ==
    /\ matcher = "embedding"
    /\ pc = "done"
    /\ Len(fn_args) = 1
    /\ i' = 0
    /\ title_row' = <<>>
    /\ spec_row' = <<>>
    /\ specs1_clean_str' = <<>>
    /\ candidate_indices' = <<>>
    /\ matched_store2_indices_hi' = {}
    /\ merged_rows_hi' = <<>>
    /\ pc' = IF Len(SecondCatalog) > 0 THEN "loop2" ELSE "raised"
    /\ UNCHANGED <<stageVars, fnVars, matcher, top_k, title_threshold,
                   spec_threshold, specs_clean2, matched_store2_indices,
                   merged_rows, title_threshold_hi, spec_threshold_hi,
                   fieldVars>>

\* lines 106-167 in the second execution
SecondRunLoopBody ==
    /\ matcher = "embedding"
    /\ pc = "loop2"
    /\ i < Len(SecondCatalog)
    /\ LET a == ItemOfPass(i + 1, Len(SecondCatalog))
           item == SecondCatalog[a]
           cands == CandidateIndices(item.argsort, top_k)
           best == BestMatchFor(item.title_row, item.spec_row, item.specs_clean,
                                cands, matched_store2_indices_hi,
                                title_threshold_hi, spec_threshold_hi)
       IN  /\ title_row' = item.title_row
           /\ spec_row' = item.spec_row
           /\ specs1_clean_str' = item.specs_clean
           /\ candidate_indices' = cands
           /\ matched_store2_indices_hi' =
                  CommitIndex(matched_store2_indices_hi, best)
           /\ merged_rows_hi' = CommitRow(merged_rows_hi, a, best)
    /\ i' = i + 1
    /\ pc' = "next2"
    /\ UNCHANGED <<stageVars, fnVars, matcher, top_k, title_threshold,
                   spec_threshold, specs_clean2, matched_store2_indices,
                   merged_rows, title_threshold_hi, spec_threshold_hi,
                   fieldVars>>

\* line 106 in the second execution: the loop goes on to the next pass
SecondRunNextItem ==
    /\ matcher = "embedding"
    /\ pc = "next2"
    /\ i < Len(SecondCatalog)
    /\ title_row' = <<>>
    /\ spec_row' = <<>>
    /\ specs1_clean_str' = <<>>
    /\ candidate_indices' = <<>>
    /\ pc' = "loop2"
    /\ UNCHANGED <<stageVars, fnVars, matcher, top_k, title_threshold,
                   spec_threshold, specs_clean2, i, matched_store2_indices,
                   merged_rows, hiVars, fieldVars>>

\* results_df.to_csv(output_file) in the second execution
SecondRunWrite ==
    /\ matcher = "embedding"
    /\ pc = "next2"
    /\ i = Len(SecondCatalog)
    /\ pc' = "done2"
    /\ UNCHANGED <<stageVars, fnVars, matcher, embedVars, hiVars, fieldVars>>

-----------------------------------------------------------------------------
(* One call of calculate_spec_similarity,                                    *)
(* src/5_matching/testing/matching_test.py                                   *)

\* keys of the extracted_specs objects
SpecKeys == {"color", "ram"}

\* the JSON number 24
Num24 == Num(<<"2", "4">>)

\* the JSON string "24"
Text24 == Str(<<"2", "4">>)

\* JSON values of the extracted_specs objects: strings, a number, null
SpecValues == {TextRed, TextRedPadded, Text24, Num24, None}

\* the JSON objects over these keys and values, the empty object included
SpecMaps == UNION {[K -> SpecValues] : K \in SUBSET SpecKeys}

InitSimilarity ==
    /\ matcher = "calculate_spec_similarity"
    /\ pc = "call"
    /\ fn_args \in SpecMaps \X SpecMaps
    /\ fn_result = <<>>

\* lines 34-55: the call returns its score
CallSimilarity ==
    /\ matcher = "calculate_spec_similarity"
    /\ pc = "call"
    /\ fn_result' = calculate_spec_similarity(fn_args[1], fn_args[2])
    /\ pc' = "return"
    /\ UNCHANGED <<stageVars, matcher, fn_args, embedVars, hiVars, fieldVars>>

InitSimilarityRun == InitSimilarity /\ IdleEmbedding /\ InitHiIdle /\ IdleStages /\ IdleField

NextSimilarity == CallSimilarity

SpecSimilarity == InitSimilarityRun /\ [][NextSimilarity]_vars

-----------------------------------------------------------------------------
(* Calls of have_no_shared_model_tokens, src/4_matching/matching.py *)

\* "16gb"
Short16 == <<"1", "6", "g", "b">>

\* "32gb"
Short32 == <<"3", "2", "g", "b">>

\* "16GB ram x_1"
Mixed16 == <<"1", "6", "G", "B", " ", "r", "a", "m", " ", "x", "_", "1">>

\* the strings the guard is called with: the cleaned spec strings of the
\* catalogs, short strings, the empty string, a string that is not cleaned
GuardStrings == SpecsCleanPool1 \cup {<<>>, Short16, Short32, Mixed16}

InitGuard ==
    /\ matcher = "have_no_shared_model_tokens"
    /\ pc = "call"
    /\ fn_args \in GuardStrings \X GuardStrings
    /\ fn_result = <<>>

\* lines 62-68: the call on the two strings returns
CallGuard ==
    /\ matcher = "have_no_shared_model_tokens"
    /\ pc = "call"
    /\ fn_result' = <<have_no_shared_model_tokens(fn_args[1], fn_args[2])>>
    /\ pc' = "swapped"
    /\ UNCHANGED <<stageVars, matcher, fn_args, embedVars, hiVars, fieldVars>>

\* lines 62-68: the call on the same two strings in the other order returns
CallGuardSwapped ==
    /\ matcher = "have_no_shared_model_tokens"
    /\ pc = "swapped"
    /\ fn_result' = Append(fn_result,
                           have_no_shared_model_tokens(fn_args[2], fn_args[1]))
    /\ pc' = "return"
    /\ UNCHANGED <<stageVars, matcher, fn_args, embedVars, hiVars, fieldVars>>

InitGuardRun == InitGuard /\ IdleEmbedding /\ InitHiIdle /\ IdleStages /\ IdleField

NextGuard == CallGuard \/ CallGuardSwapped

SpecGuard == InitGuardRun /\ [][NextGuard]_vars

-----------------------------------------------------------------------------
(* clean_text, src/4_matching/matching.py *)

\* re.sub(r'[^\w\s]', '', text): word characters and whitespace stay
RECURSIVE RemoveNonWordNonSpace(_)
RemoveNonWordNonSpace(text) ==
    IF text = <<>> THEN <<>>
    ELSE IF Head(text) \in WordChars \cup Whitespace
         THEN <<Head(text)>> \o RemoveNonWordNonSpace(Tail(text))
         ELSE RemoveNonWordNonSpace(Tail(text))

\* re.sub(r'\s+', ' ', text): every run of whitespace becomes one space
RECURSIVE CollapseWhitespace(_)
CollapseWhitespace(text) ==
    IF text = <<>> THEN <<>>
    ELSE IF Head(text) \in Whitespace
         THEN <<" ">> \o CollapseWhitespace(LStrip(Tail(text)))
         ELSE <<Head(text)>> \o CollapseWhitespace(Tail(text))

\* the same function removing the punctuation after the whitespace has been
\* collapsed and stripped
clean_text_punctuation_last(text) ==
    IF text.kind = "none"
    THEN <<>>
    ELSE RemoveNonWordNonSpace(Strip(CollapseWhitespace(Lower(text.text))))

\* lines 9-14; the argument is a string or a null, the result is a string
clean_text(text) ==
    IF text.kind = "none"
    THEN <<>>
    ELSE Strip(CollapseWhitespace(RemoveNonWordNonSpace(Lower(text.text))))

-----------------------------------------------------------------------------
(* Calls of clean_text *)

\* longest text clean_text is called with
MaxTextLen == 3

\* an upper-case letter, a digit, the underscore, a punctuation mark, two
\* whitespace characters
CleanAlphabet == {"A", "1", "_", "-", " ", "\t"}

\* the strings over this alphabet, and a null
CleanInputs ==
    {None} \cup {Str(s) : s \in UNION {[1..n -> CleanAlphabet] : n \in 0..MaxTextLen}}

InitClean ==
    /\ matcher = "clean_text"
    /\ pc = "call"
    /\ fn_args \in {<<text>> : text \in CleanInputs}
    /\ fn_result = <<>>

\* lines 9-14: the call returns
CallClean ==
    /\ matcher = "clean_text"
    /\ pc = "call"
    /\ fn_result' = <<clean_text(fn_args[1])>>
    /\ pc' = "again"
    /\ UNCHANGED <<stageVars, matcher, fn_args, embedVars, hiVars, fieldVars>>

\* lines 9-14: the call on the string the first call returned returns
CallCleanAgain ==
    /\ matcher = "clean_text"
    /\ pc = "again"
    /\ fn_result' = Append(fn_result, clean_text(Str(fn_result[1])))
    /\ pc' = "return"
    /\ UNCHANGED <<stageVars, matcher, fn_args, embedVars, hiVars, fieldVars>>

InitCleanRun == InitClean /\ IdleEmbedding /\ InitHiIdle /\ IdleStages /\ IdleField

NextClean == CallClean \/ CallCleanAgain

SpecClean == InitCleanRun /\ [][NextClean]_vars

-----------------------------------------------------------------------------
(* JSON payloads: json.loads as parse_and_convert_specs and load_products    *)
(* call it.  The payloads of the model hold strings without escape           *)
(* sequences and integers without fraction or exponent.                      *)

\* a JSON array
List(items) == [kind |-> "list", items |-> items]

\* a JSON object: its members in insertion order, every key once
Dict(entries) == [kind |-> "dict", entries |-> entries]

\* a JSON true or false, by the text Python prints for it
Bool(text) == [kind |-> "bool", text |-> text]

\* the parser's result: a value and the position after it, or a failure
\* (json.JSONDecodeError)
Parsed(value, next) == [ok |-> TRUE, value |-> value, next |-> next]

DecodeError == [ok |-> FALSE, value |-> None, next |-> 0]

\* the characters of s from position a to position b
Slice(s, a, b) == [n \in 1..(b - a + 1) |-> s[a + n - 1]]

\* s continues with the characters of lit at position pos
StartsWith(s, pos, lit) ==
    /\ pos + Len(lit) - 1 <= Len(s)
    /\ \A n \in 1..Len(lit) : s[pos + n - 1] = lit[n]

\* the first position from pos on that holds no whitespace
RECURSIVE SkipWhitespace(_, _)
SkipWhitespace(s, pos) ==
    IF pos <= Len(s) /\ s[pos] \in Whitespace
    THEN SkipWhitespace(s, pos + 1)
    ELSE pos

\* the position of the quote that closes the string whose content starts at
\* pos, 0 if there is none or a control character comes first
RECURSIVE ClosingQuote(_, _)
ClosingQuote(s, pos) ==
    IF pos > Len(s) \/ s[pos] = "\t" THEN 0
    ELSE IF s[pos] = "\"" THEN pos
    ELSE ClosingQuote(s, pos + 1)

\* the first position from pos on that holds no digit
RECURSIVE SkipDigits(_, _)
SkipDigits(s, pos) ==
    IF pos <= Len(s) /\ s[pos] \in Digits THEN SkipDigits(s, pos + 1) ELSE pos

\* an integer at position pos: an optional minus sign, then 0 or a run of
\* digits that does not start with 0
ParseNumber(s, pos) ==
    LET first == IF pos <= Len(s) /\ s[pos] = "-" THEN pos + 1 ELSE pos
        last == IF first <= Len(s) /\ s[first] = "0"
                THEN first
                ELSE SkipDigits(s, first) - 1
    IN  IF last < first
        THEN DecodeError
        ELSE IF s[first] = "0"
             THEN Parsed(Num(<<"0">>), last + 1)
             ELSE Parsed(Num(Slice(s, pos, last)), last + 1)

\* dict[key] = value
Put(entries, key, value) ==
    IF \E n \in 1..Len(entries) : entries[n].key = key
    THEN [n \in 1..Len(entries) |->
             IF entries[n].key = key
             THEN [key |-> key, value |-> value]
             ELSE entries[n]]
    ELSE Append(entries, [key |-> key, value |-> value])

\* the decoder's scan_once at position pos, and the loops of its array and
\* object decoders: ParseElements stands at the start of an element,
\* ParseMembers at the opening quote of a key
RECURSIVE ParseValue(_, _)
RECURSIVE ParseElements(_, _, _)
RECURSIVE ParseMembers(_, _, _)
ParseValue(s, pos) ==
    IF pos > Len(s) THEN DecodeError
    ELSE IF s[pos] = "\"" THEN
        LET close == ClosingQuote(s, pos + 1)
        IN  IF close = 0 THEN DecodeError
            ELSE Parsed(Str(Slice(s, pos + 1, close - 1)), close + 1)
    ELSE IF s[pos] = "[" THEN
        LET start == SkipWhitespace(s, pos + 1)
        IN  IF start <= Len(s) /\ s[start] = "]"
            THEN Parsed(List(<<>>), start + 1)
            ELSE ParseElements(s, start, <<>>)
    ELSE IF s[pos] = "{" THEN
        LET start == SkipWhitespace(s, pos + 1)
        IN  IF start <= Len(s) /\ s[start] = "}"
            THEN Parsed(Dict(<<>>), start + 1)
            ELSE ParseMembers(s, start, <<>>)
    ELSE IF StartsWith(s, pos, <<"n", "u", "l", "l">>) THEN Parsed(None, pos + 4)
    ELSE IF StartsWith(s, pos, <<"t", "r", "u", "e">>)
        THEN Parsed(Bool(<<"T", "r", "u", "e">>), pos + 4)
    ELSE IF StartsWith(s, pos, <<"f", "a", "l", "s", "e">>)
        THEN Parsed(Bool(<<"F", "a", "l", "s", "e">>), pos + 5)
    ELSE ParseNumber(s, pos)

ParseElements(s, pos, items) ==
    LET element == ParseValue(s, pos)
        after == SkipWhitespace(s, element.next)
    IN  IF ~element.ok \/ after > Len(s) THEN DecodeError
        ELSE IF s[after] = "]"
             THEN Parsed(List(Append(items, element.value)), after + 1)
        ELSE IF s[after] = ","
             THEN ParseElements(s, SkipWhitespace(s, after + 1),
                                Append(items, element.value))
        ELSE DecodeError

ParseMembers(s, pos, entries) ==
    LET close == IF pos <= Len(s) /\ s[pos] = "\"" THEN ClosingQuote(s, pos + 1) ELSE 0
        colon == SkipWhitespace(s, close + 1)
        member == IF close # 0 /\ colon <= Len(s) /\ s[colon] = ":"
                  THEN ParseValue(s, SkipWhitespace(s, colon + 1))
                  ELSE DecodeError
        after == SkipWhitespace(s, member.next)
        added == Put(entries, Slice(s, pos + 1, close - 1), member.value)
    IN  IF ~member.ok \/ after > Len(s) THEN DecodeError
        ELSE IF s[after] = "}" THEN Parsed(Dict(added), after + 1)
        ELSE IF s[after] = ","
             THEN ParseMembers(s, SkipWhitespace(s, after + 1), added)
        ELSE DecodeError

\* json.loads(s): one value, whitespace around it, nothing else
json_loads(s) ==
    LET value == ParseValue(s, SkipWhitespace(s, 1))
    IN  IF value.ok /\ SkipWhitespace(s, value.next) = Len(s) + 1
        THEN value
        ELSE DecodeError

-----------------------------------------------------------------------------
(* Record normalizer: flattening of the specification payload,               *)
(* src/4_matching/matching.py                                                *)

\* the characters of the model in the order of their code points
CodePointOrder ==
    <<"\t", " ", "\"", "'", ",", "-",
      "0", "1", "2", "3", "4", "5", "6", "7", "8", "9", ":",
      "A", "B", "C", "D", "E", "F", "G", "H", "I", "J", "K", "L", "M",
      "N", "O", "P", "Q", "R", "S", "T", "U", "V", "W", "X", "Y", "Z",
      "[", "]", "_",
      "a", "b", "c", "d", "e", "f", "g", "h", "i", "j", "k", "l", "m",
      "n", "o", "p", "q", "r", "s", "t", "u", "v", "w", "x", "y", "z",
      "{", "}">>

CodePoint(c) == CHOOSE n \in 1..Len(CodePointOrder) : CodePointOrder[n] = c

\* a < b on Python strings
RECURSIVE StringLess(_, _)
StringLess(a, b) ==
    IF b = <<>> THEN FALSE
    ELSE IF a = <<>> THEN TRUE
    ELSE IF Head(a) = Head(b) THEN StringLess(Tail(a), Tail(b))
    ELSE CodePoint(Head(a)) < CodePoint(Head(b))

\* list.insert keeping the list sorted
RECURSIVE InsertSorted(_, _)
InsertSorted(sorted, key) ==
    IF sorted = <<>> THEN <<key>>
    ELSE IF StringLess(key, Head(sorted)) THEN <<key>> \o sorted
    ELSE <<Head(sorted)>> \o InsertSorted(Tail(sorted), key)

RECURSIVE SortedFrom(_, _, _)
SortedFrom(keys, pos, sorted) ==
    IF pos > Len(keys) THEN sorted
    ELSE SortedFrom(keys, pos + 1, InsertSorted(sorted, keys[pos]))

\* data.keys()
Keys(entries) == [n \in 1..Len(entries) |-> entries[n].key]

\* the keys of a dict in the order in which the members were inserted
KeysInOrder_of_insertion(entries) == Keys(entries)

\* line 20: sorted(data.keys())
KeysInOrder(entries) == SortedFrom(Keys(entries), 1, <<>>)

\* data[key]
ValueOf(entries, key) == (CHOOSE e \in Range(entries) : e.key = key).value

\* str(data) of a scalar
PyStr(data) ==
    IF data.kind = "none" THEN <<"N", "o", "n", "e">> ELSE data.text

\* str(data).strip() == ""; the text Python prints for a list or a dict
\* starts with a bracket
Blank(data) ==
    IF data.kind \in {"list", "dict"} THEN FALSE ELSE Strip(PyStr(data)) = <<>>

\* lines 17-29: the list of parts of a parsed value
RECURSIVE flatten_json_for_text(_)
RECURSIVE FlattenMembers(_, _, _)
RECURSIVE FlattenItems(_, _)
flatten_json_for_text(data) ==
    IF data.kind = "dict"
    THEN FlattenMembers(data.entries, KeysInOrder(data.entries), 1)
    ELSE IF data.kind = "list"
    THEN FlattenItems(data.items, 1)
    ELSE IF data.kind # "none" /\ ~Blank(data)
    THEN <<PyStr(data)>>
    ELSE <<>>

\* lines 20-23, from the key at position pos on
FlattenMembers(entries, keys, pos) ==
    IF pos > Len(keys) THEN <<>>
    ELSE <<keys[pos]>> \o flatten_json_for_text(ValueOf(entries, keys[pos]))
             \o FlattenMembers(entries, keys, pos + 1)

\* lines 25-26, from the item at position pos on
FlattenItems(items, pos) ==
    IF pos > Len(items) THEN <<>>
    ELSE flatten_json_for_text(items[pos]) \o FlattenItems(items, pos + 1)

\* " ".join(part for part in flat_parts if part)
RECURSIVE Join(_)
Join(parts) ==
    IF parts = <<>> THEN <<>>
    ELSE IF Head(parts) = <<>> THEN Join(Tail(parts))
    ELSE LET rest == Join(Tail(parts))
         IN  IF rest = <<>> THEN Head(parts) ELSE Head(parts) \o <<" ">> \o rest

\* all items of the lists of a list, in order
RECURSIVE Concat(_)
Concat(lists) ==
    IF lists = <<>> THEN <<>> ELSE Head(lists).items \o Concat(Tail(lists))

\* the number of elements of the array pandas builds from a list,
\* np.asarray(obj, dtype=object): lists of lists of one length make a further
\* dimension
RECURSIVE ArraySize(_)
ArraySize(items) ==
    IF items = <<>> THEN 0
    ELSE IF /\ \A n \in 1..Len(items) : items[n].kind = "list"
            /\ \A n \in 1..Len(items) : Len(items[n].items) = Len(items[1].items)
         THEN ArraySize(Concat(items))
         ELSE Len(items)

\* the only element of an array of one element
RECURSIVE OnlyElement(_)
OnlyElement(items) ==
    IF items[1].kind = "list" THEN OnlyElement(items[1].items) ELSE items[1]

\* what the test "pd.isnull(json_obj) or ..." of line 34 can make of
\* pd.isnull(json_obj): for a list pd.isnull returns an array, whose truth
\* value is that of its element if it has one, an error (ValueError) if it has
\* more than one, and False or an error, depending on the numpy release, if it
\* has none
IsNullTruth(json_obj) ==
    IF json_obj.kind # "list"
    THEN {IF json_obj.kind = "none" THEN "true" ELSE "false"}
    ELSE IF ArraySize(json_obj.items) > 1 THEN {"ValueError"}
    ELSE IF ArraySize(json_obj.items) = 0 THEN {"false", "ValueError"}
    ELSE {IF OnlyElement(json_obj.items).kind = "none" THEN "true" ELSE "false"}

\* the call returned a string
Returned(text) == [outcome |-> "returned", text |-> text]

\* the call raised an exception that nothing in the program catches
Raised(exception) == [outcome |-> exception, text |-> <<>>]

\* lines 32-42: the outcomes of the call
json_to_representative_string(json_obj) ==
    IF json_obj.kind # "dict"
    THEN {IF truth = "ValueError" THEN Raised("ValueError")
          ELSE IF truth = "true" \/ Blank(json_obj) THEN Returned(<<>>)
          ELSE IF json_obj.kind = "list"
               THEN Returned(Join(flatten_json_for_text(json_obj)))
               ELSE Returned(PyStr(json_obj)) : truth \in IsNullTruth(json_obj)}
    ELSE {Returned(Join(flatten_json_for_text(json_obj)))}

\* repr(spec_str) of a string without quotes
Repr(text) == <<"'">> \o text \o <<"'">>

\* the same function falling back to repr(spec_str)
parse_and_convert_specs_repr_fallback(spec_str) ==
    IF spec_str.kind = "none" \/ Strip(spec_str.text) = <<>>
    THEN {Returned(<<>>)}
    ELSE LET json_obj == json_loads(spec_str.text)
         IN  IF json_obj.ok
             THEN json_to_representative_string(json_obj.value)
             ELSE {Returned(Repr(spec_str.text))}

\* lines 48-55: the outcomes of the call on a cell of the extracted_specs
\* column, a string or a null
parse_and_convert_specs(spec_str) ==
    IF spec_str.kind = "none" \/ Strip(spec_str.text) = <<>>
    THEN {Returned(<<>>)}
    ELSE LET json_obj == json_loads(spec_str.text)
         IN  IF json_obj.ok
             THEN json_to_representative_string(json_obj.value)
             ELSE {Returned(spec_str.text)}

-----------------------------------------------------------------------------
(* Calls of parse_and_convert_specs *)

\* longest payload of the payloads that are enumerated
MaxPayloadLen == 5

\* brackets, a digit, the comma, the quote, the space
PayloadAlphabet == {"[", "]", "1", ",", "\"", " "}

\* every string over this alphabet up to the longest length
ShortPayloads == UNION {[1..n -> PayloadAlphabet] : n \in 0..MaxPayloadLen}

\* {"b":1,"a":"x"}
ObjectBA == <<"{", "\"", "b", "\"", ":", "1", ",", "\"", "a", "\"", ":", "\"",
    "x", "\"", "}">>

\* {"a": "x", "b": 1}
ObjectAB == <<"{", "\"", "a", "\"", ":", " ", "\"", "x", "\"", ",", " ", "\"",
    "b", "\"", ":", " ", "1", "}">>

\* {"a":{"d":1,"c":[1,2]},"b":null}
ObjectNested == <<"{", "\"", "a", "\"", ":", "{", "\"", "d", "\"", ":", "1",
    ",", "\"", "c", "\"", ":", "[", "1", ",", "2", "]", "}", ",", "\"", "b",
    "\"", ":", "n", "u", "l", "l", "}">>

\* {"b":null,"a":{"c":[1,2],"d":1}}
ObjectNestedSwapped == <<"{", "\"", "b", "\"", ":", "n", "u", "l", "l", ",",
    "\"", "a", "\"", ":", "{", "\"", "c", "\"", ":", "[", "1", ",", "2", "]",
    ",", "\"", "d", "\"", ":", "1", "}", "}">>

\* {"a":"x","b":2}
ObjectOtherValue == <<"{", "\"", "a", "\"", ":", "\"", "x", "\"", ",", "\"",
    "b", "\"", ":", "2", "}">>

\* {"a":1,"B":[]}
ObjectUpperKey == <<"{", "\"", "a", "\"", ":", "1", ",", "\"", "B", "\"", ":",
    "[", "]", "}">>

\* {"B":[],"a":1}
ObjectUpperKeySwapped == <<"{", "\"", "B", "\"", ":", "[", "]", ",", "\"",
    "a", "\"", ":", "1", "}">>

\* {"b":null,"a":{"c":[2,1],"d":1}}
ObjectArraySwapped == <<"{", "\"", "b", "\"", ":", "n", "u", "l", "l", ",",
    "\"", "a", "\"", ":", "{", "\"", "c", "\"", ":", "[", "2", ",", "1", "]",
    ",", "\"", "d", "\"", ":", "1", "}", "}">>

\* {" ":null}
ObjectBlankKey == <<"{", "\"", " ", "\"", ":", "n", "u", "l", "l", "}">>

\* {}
ObjectEmpty == <<"{", "}">>

\* ["16GB", "SSD"]
ArrayOfStrings == <<"[", "\"", "1", "6", "G", "B", "\"", ",", " ", "\"", "S",
    "S", "D", "\"", "]">>

\* [{"a":1}]
ArrayOfObject == <<"[", "{", "\"", "a", "\"", ":", "1", "}", "]">>

\* [1,[2,3]]
ArrayNested == <<"[", "1", ",", "[", "2", ",", "3", "]", "]">>

\* [null]
ArrayOfNull == <<"[", "n", "u", "l", "l", "]">>

\* null
TextNull == <<"n", "u", "l", "l">>

\* "null"
TextQuotedNull == <<"\"", "n", "u", "l", "l", "\"">>

\* true
TextTrue == <<"t", "r", "u", "e">>

\* 16gb ram
TextPlain == <<"1", "6", "g", "b", " ", "r", "a", "m">>

\* {"a":1
TextBrokenObject == <<"{", "\"", "a", "\"", ":", "1">>

\*  <tab>
TextBlank == <<" ", "\t">>

\* payloads that are JSON objects
ObjectPayloads ==
    {ObjectBA, ObjectAB, ObjectNested, ObjectNestedSwapped, ObjectOtherValue,
     ObjectUpperKey, ObjectUpperKeySwapped, ObjectArraySwapped, ObjectBlankKey,
     ObjectEmpty}

\* payloads that are arrays, scalars or no JSON
OtherPayloads ==
    {ArrayOfStrings, ArrayOfObject, ArrayNested, ArrayOfNull, TextNull,
     TextQuotedNull, TextTrue, TextPlain, TextBrokenObject, TextBlank}

\* the cells of the extracted_specs column: an empty cell (NaN) or a string
SpecCells ==
    {None} \cup {Str(s) : s \in ShortPayloads \cup ObjectPayloads \cup OtherPayloads}

InitFlatten ==
    /\ matcher = "parse_and_convert_specs"
    /\ pc = "call"
    /\ fn_args \in {<<spec_str>> : spec_str \in SpecCells}
    /\ fn_result = <<>>

\* lines 48-55: the call on the cell returns or raises
CallFlatten ==
    /\ matcher = "parse_and_convert_specs"
    /\ pc = "call"
    /\ \E out \in parse_and_convert_specs(fn_args[1]) :
          /\ fn_result' = <<out>>
          /\ pc' = IF out.outcome = "returned" THEN "again" ELSE "raised"
    /\ UNCHANGED <<stageVars, matcher, fn_args, embedVars, hiVars, fieldVars>>

\* lines 48-55: the call on the string the first call returned returns or
\* raises
CallFlattenAgain ==
    /\ matcher = "parse_and_convert_specs"
    /\ pc = "again"
    /\ \E out \in parse_and_convert_specs(Str(fn_result[1].text)) :
          /\ fn_result' = Append(fn_result, out)
          /\ pc' = IF out.outcome = "returned" THEN "return" ELSE "raised"
    /\ UNCHANGED <<stageVars, matcher, fn_args, embedVars, hiVars, fieldVars>>

InitFlattenRun == InitFlatten /\ IdleEmbedding /\ InitHiIdle /\ IdleStages /\ IdleField

NextFlatten == CallFlatten \/ CallFlattenAgain

SpecFlatten == InitFlattenRun /\ [][NextFlatten]_vars

-----------------------------------------------------------------------------
(* Calls of parse_and_convert_specs on two JSON objects *)

InitKeyOrder ==
    /\ matcher = "flatten_json_for_text"
    /\ pc = "call"
    /\ fn_args \in {<<Str(a), Str(b)>> : a, b \in ObjectPayloads}
    /\ fn_result = <<>>

\* lines 48-55: the call on the first object returns
CallFlattenFirst ==
    /\ matcher = "flatten_json_for_text"
    /\ pc = "call"
    /\ \E out \in parse_and_convert_specs(fn_args[1]) : fn_result' = <<out>>
    /\ pc' = "second"
    /\ UNCHANGED <<stageVars, matcher, fn_args, embedVars, hiVars, fieldVars>>

\* lines 48-55: the call on the second object returns
CallFlattenSecond ==
    /\ matcher = "flatten_json_for_text"
    /\ pc = "second"
    /\ \E out \in parse_and_convert_specs(fn_args[2]) :
          fn_result' = Append(fn_result, out)
    /\ pc' = "return"
    /\ UNCHANGED <<stageVars, matcher, fn_args, embedVars, hiVars, fieldVars>>

InitKeyOrderRun == InitKeyOrder /\ IdleEmbedding /\ InitHiIdle /\ IdleStages /\ IdleField

NextKeyOrder == CallFlattenFirst \/ CallFlattenSecond

SpecKeyOrder == InitKeyOrderRun /\ [][NextKeyOrder]_vars

-----------------------------------------------------------------------------
(* Field matcher: load_products, src/5_matching/testing/matching_test.py *)

\* a row of csv.DictReader: a cell is a string, or None where the row is
\* shorter than the header
Row(model_name, category, extracted_specs) ==
    [Model_Name |-> model_name, Category |-> category,
     extracted_specs |-> extracted_specs]

\* a CSV file: whether it exists, whether its header has the extracted_specs
\* column, its rows
CsvFile(found, has_specs_column, rows) ==
    [found |-> found, has_specs_column |-> has_specs_column, rows |-> rows]

\* the Python object of a parsed JSON value: a dict for an object
AsObject(value) ==
    IF value.kind = "dict"
    THEN [key \in Range(Keys(value.entries)) |-> ValueOf(value.entries, key)]
    ELSE value

\* the row load_products appends for the row at position pos, whose 'id' ends
\* with its index
LoadedProduct(pos, row, specs) ==
    [id |-> pos] @@ Product(row.Model_Name, row.Category, specs)

\* the call returned the list
Loaded(products) == [outcome |-> "returned", products |-> products]

\* the call raised an exception that nothing in the program catches
LoadRaised(exception) == [outcome |-> exception, products |-> <<>>]

\* lines 25-26: "Could not parse JSON for row ... Skipping."
SkipRow(products, pos, row) == products

\* lines 18-28: the loop over the rows, from the row at position pos on
RECURSIVE LoadRows(_, _, _)
LoadRows(file, pos, products) ==
    IF pos > Len(file.rows) THEN Loaded(products)
    ELSE LET row == file.rows[pos]
             json_obj == json_loads(row.extracted_specs.text)
         IN  IF ~file.has_specs_column
             THEN LoadRows(file, pos + 1, products)
             ELSE IF row.extracted_specs.kind = "none"
             THEN LoadRaised("TypeError")
             ELSE IF ~json_obj.ok
             THEN LoadRows(file, pos + 1, SkipRow(products, pos, row))
             ELSE LoadRows(file, pos + 1,
                           Append(products,
                                  LoadedProduct(pos, row, AsObject(json_obj.value))))

\* lines 13-31
load_products(file) ==
    IF ~file.found THEN Loaded(<<>>) ELSE LoadRows(file, 1, <<>>)

-----------------------------------------------------------------------------
(* Calls of load_products *)

\* largest number of rows of the file
MaxRows == 3

\* cells of the extracted_specs column: an object, two texts that are no
\* JSON, the cell a short row lacks
RowPool ==
    {Row(NameX1, CategoryTV, cell) :
        cell \in {Str(ObjectBA), Str(TextPlain), Str(TextBrokenObject), None}}

\* the files: a missing one, and files with and without the column
CsvFiles ==
    {CsvFile(FALSE, TRUE, <<>>)}
    \cup {CsvFile(TRUE, has_specs_column, rows) :
            has_specs_column \in BOOLEAN,
            rows \in UNION {[1..n -> RowPool] : n \in 0..MaxRows}}

InitLoad ==
    /\ matcher = "load_products"
    /\ pc = "call"
    /\ fn_args \in {<<file>> : file \in CsvFiles}
    /\ fn_result = <<>>

\* lines 13-31: the call returns the products or raises
CallLoad ==
    /\ matcher = "load_products"
    /\ pc = "call"
    /\ fn_result' = <<load_products(fn_args[1])>>
    /\ pc' = IF load_products(fn_args[1]).outcome = "returned"
             THEN "return"
             ELSE "raised"
    /\ UNCHANGED <<stageVars, matcher, fn_args, embedVars, hiVars, fieldVars>>

InitLoadRun == InitLoad /\ IdleEmbedding /\ InitHiIdle /\ IdleStages /\ IdleField

NextLoad == CallLoad

SpecLoad == InitLoadRun /\ [][NextLoad]_vars

-----------------------------------------------------------------------------
(* The two programs from their input files: the main block of                *)
(* src/5_matching/testing/matching_test.py and the head of match_products of *)
(* src/4_matching/matching.py.  fn_args holds the two input files and        *)
(* fn_result what load_products returned for them.                           *)

\* largest number of rows of an input file of the field matcher
MaxFileRows == 2

\* the columns load_products reads
FieldColumns == {"Model Name", "Category", "extracted_specs"}

\* the columns preprocess_dataframe reads
EmbeddingColumns == {"Title", "extracted_specs"}

\* an input file: whether it exists, the columns of its header, its rows
InputFile(found, columns, rows) ==
    [found |-> found, columns |-> columns, rows |-> rows]

\* row.get(column, ''): the cell, the empty string for a column the header
\* does not have
GetOrEmpty(file, cell, column) ==
    IF column \in file.columns THEN cell ELSE Str(<<>>)

\* the file as csv.DictReader hands it to the loop of load_products
AsCsvFile(file) ==
    CsvFile(file.found, "extracted_specs" \in file.columns,
            [n \in 1..Len(file.rows) |->
                Row(GetOrEmpty(file, file.rows[n].Model_Name, "Model Name"),
                    GetOrEmpty(file, file.rows[n].Category, "Category"),
                    file.rows[n].extracted_specs)])

\* rows with an object payload that differ in model name and category, and a
\* row whose payload is no JSON
FileRowPool ==
    {Row(NameX1, CategoryTV, Str(ObjectBA)),
     Row(NameY2, CategoryAV, Str(ObjectBA)),
     Row(NameX1, CategoryTV, Str(TextPlain))}

\* the headers: complete, or lacking one column
Headers(columns) == {columns} \cup {columns \ {column} : column \in columns}

FieldInputFiles ==
    {InputFile(FALSE, FieldColumns, <<>>)}
    \cup {InputFile(TRUE, columns, rows) :
            columns \in Headers(FieldColumns),
            rows \in UNION {[1..n -> FileRowPool] : n \in 0..MaxFileRows}}

EmbeddingInputFiles ==
    {InputFile(FALSE, RowColumns, <<>>)}
    \cup {InputFile(TRUE, columns, <<>>) : columns \in Headers(RowColumns)}

\* the main block of the field matcher before its first call
InitFieldMain ==
    /\ matcher = "field"
    /\ pc = "load1"
    /\ fn_args \in FieldInputFiles \X FieldInputFiles
    /\ fn_result = <<>>
    /\ products1 = <<>>
    /\ products2 = <<>>
    /\ spec_similarity_threshold = Fraction(4, 5)
    /\ model_name_map = <<>>
    /\ p1 = 0
    /\ still_unmatched1 = <<>>
    /\ matches = <<>>
    /\ still_unmatched2 = <<>>
    /\ category_map = <<>>
    /\ matched_in_phase2_ids = {}
    /\ p2 = 0

\* line 169: products_file1 = load_products(FILE1_PATH)
MainLoadFile1 ==
    /\ matcher = "field"
    /\ pc = "load1"
    /\ LET loaded == load_products(AsCsvFile(fn_args[1]))
       IN  /\ fn_result' = <<loaded>>
           /\ pc' = IF loaded.outcome = "returned" THEN "load2" ELSE "raised"
    /\ UNCHANGED <<stageVars, matcher, fn_args, embedVars, hiVars, fieldVars>>

\* line 170: products_file2 = load_products(FILE2_PATH)
MainLoadFile2 ==
    /\ matcher = "field"
    /\ pc = "load2"
    /\ LET loaded == load_products(AsCsvFile(fn_args[2]))
       IN  /\ fn_result' = Append(fn_result, loaded)
           /\ pc' = IF loaded.outcome = "returned" THEN "loaded" ELSE "raised"
    /\ UNCHANGED <<stageVars, matcher, fn_args, embedVars, hiVars, fieldVars>>

\* lines 172-178: "if products_file1 and products_file2", then the call of
\* match_products with the default threshold; otherwise the program ends
MainCallMatchProducts ==
    /\ matcher = "field"
    /\ pc = "loaded"
    /\ IF fn_result[1].products # <<>> /\ fn_result[2].products # <<>>
       THEN /\ products1' = fn_result[1].products
            /\ products2' = fn_result[2].products
            /\ pc' = "start"
       ELSE /\ pc' = "exit"
            /\ UNCHANGED <<products1, products2>>
    /\ UNCHANGED <<stageVars, matcher, fnVars, embedVars, hiVars, spec_similarity_threshold,
                   model_name_map, p1, still_unmatched1, matches,
                   still_unmatched2, category_map, matched_in_phase2_ids, p2>>

\* lines 132-160, write_matches_to_csv: the file is written unless there is
\* no match
MainWriteMatches ==
    /\ matcher = "field"
    /\ pc = "done"
    /\ fn_args # <<>>
    /\ pc' = IF matches = <<>> THEN "exit" ELSE "written"
    /\ UNCHANGED <<stageVars, matcher, fnVars, embedVars, hiVars, fieldVars>>

\* match_products of the embedding matcher before it reads its files
InitEmbeddingMain ==
    /\ matcher = "embedding"
    /\ pc = "read"
    /\ fn_args \in EmbeddingInputFiles \X EmbeddingInputFiles
    /\ fn_result = <<>>
    /\ top_k \in TopKs
    /\ title_threshold \in TitleThresholds
    /\ spec_threshold \in SpecThresholds
    /\ specs_clean2 \in [1..NumB -> SpecsCleanPool2]
    /\ i = 0
    /\ title_row = <<>>
    /\ spec_row = <<>>
    /\ specs1_clean_str = <<>>
    /\ candidate_indices = <<>>
    /\ matched_store2_indices = {}
    /\ merged_rows = <<>>

\* lines 72-83: pd.read_csv of both files, where FileNotFoundError makes the
\* function return, then preprocess_dataframe of both, where a column the
\* header does not have raises KeyError
EmbedReadFiles ==
    /\ matcher = "embedding"
    /\ pc = "read"
    /\ pc' = IF ~fn_args[1].found \/ ~fn_args[2].found
             THEN "exit"
             ELSE IF \E n \in 1..2 : ~(EmbeddingColumns \subseteq fn_args[n].columns)
             THEN "raised"
             ELSE "loop"
    /\ UNCHANGED <<stageVars, matcher, fnVars, embedVars, hiVars, fieldVars>>

InitInputsRun ==
    \/ InitFieldMain /\ IdleEmbedding /\ InitHiIdle /\ IdleStages
    \/ InitEmbeddingMain /\ InitHiIdle /\ IdleStages /\ IdleField

NextInputs ==
    \/ MainLoadFile1
    \/ MainLoadFile2
    \/ MainCallMatchProducts
    \/ BuildModelNameMap
    \/ Phase1Iter
    \/ BuildCategoryMap
    \/ Phase2Iter
    \/ FieldReturn
    \/ MainWriteMatches
    \/ EmbedReadFiles
    \/ EmbedLoopBody
    \/ EmbedNextItem
    \/ EmbedWrite

SpecInputs == InitInputsRun /\ [][NextInputs]_vars

-----------------------------------------------------------------------------
(* The specification payload of a record in either program *)

InitPayload == InitFlattenRun \/ InitLoadRun

NextPayload == NextFlatten \/ NextLoad

SpecPayload == InitPayload /\ [][NextPayload]_vars

-----------------------------------------------------------------------------
(* The embedding matcher on the catalogs of the token guard *)

InitEmbeddingGuardRun == InitEmbeddingGuard /\ InitHiIdle /\ IdleStages /\ IdleField /\ IdleFn

NextEmbeddingGuard == EmbedLoopBody \/ EmbedNextItem \/ EmbedWrite

SpecEmbeddingGuard == InitEmbeddingGuardRun /\ [][NextEmbeddingGuard]_vars

-----------------------------------------------------------------------------
(* The concurrent scrapers: src/1_scraping/neptun/neptun_scraper.py and      *)
(* src/1_scraping/tehnomarket/tehnomarker_scraper.py.  main() hands one      *)
(* coroutine per category URL to asyncio.gather; a coroutine moves from one  *)
(* await to the next in one step.  The coroutines of a scraper run the same  *)
(* code, so the state holds how many of them stand at each position.         *)

\* CONCURRENCY_LIMIT of neptun_scraper.py
CONCURRENCY_LIMIT_neptun == 10

\* CONCURRENCY_LIMIT of tehnomarker_scraper.py
CONCURRENCY_LIMIT_tehnomarket == 5

\* largest number of category URLs
MaxCategoryUrls == 11

\* largest number of pages that an exception leaves open
MaxLeakedPages == 1

ConcurrencyLimit ==
    IF matcher = "neptun_scraper"
    THEN CONCURRENCY_LIMIT_neptun
    ELSE CONCURRENCY_LIMIT_tehnomarket

\* where a coroutine can stand: before "async with semaphore"; inside it and
\* awaiting context.new_page(); with the page of the inner categories open
\* (neptun); between two calls of scrape_products (neptun: inner categories
\* are left, or only the main category is); with a listing page open; with
\* a listing page and the page of one product open; returned
Positions ==
    {"waiting", "acquired", "inner", "between", "before_main", "listing",
     "specs", "main_listing", "main_specs", "done"}

\* the pages the coroutines hold open, by their positions
PagesHeld ==
    page_tasks["inner"] + page_tasks["listing"] + page_tasks["main_listing"]
      + 2 * page_tasks["specs"] + 2 * page_tasks["main_specs"]

\* one coroutine goes from a position to another
Move(from, to) ==
    /\ page_tasks[from] > 0
    /\ page_tasks' = [page_tasks EXCEPT ![from] = @ - 1, ![to] = @ + 1]

\* the positions scrape_products is called from and returns to; the call for
\* the main category is the last of neptun's scrape_page, the only call of a
\* tehnomarket coroutine ends it
ListingCalls ==
    IF matcher = "neptun_scraper"
    THEN {<<"between", "listing", "between">>,
          <<"between", "listing", "before_main">>,
          <<"before_main", "main_listing", "done">>}
    ELSE {<<"acquired", "listing", "done">>}

\* the semaphore after a coroutine arrived at position to
Released(to) == IF to = "done" THEN semaphore + 1 ELSE semaphore

InitScraper ==
    /\ matcher \in {"neptun_scraper", "tehnomarket_scraper"}
    /\ pc = "gather"
    /\ semaphore = ConcurrencyLimit
    /\ open_pages = 0
    /\ \E n \in 1..MaxCategoryUrls :
          page_tasks = [p \in Positions |-> IF p = "waiting" THEN n ELSE 0]

\* "async with semaphore": the coroutine enters when the value is positive
ScrapeAcquire ==
    /\ pc = "gather"
    /\ semaphore > 0
    /\ Move("waiting", "acquired")
    /\ semaphore' = semaphore - 1
    /\ UNCHANGED <<matcher, pc, open_pages, annotVars, fnVars, embedVars, hiVars,
                   fieldVars>>

\* neptun, get_inner_categories line 23: page = await context.new_page()
OpenInnerPage ==
    /\ pc = "gather"
    /\ matcher = "neptun_scraper"
    /\ Move("acquired", "inner")
    /\ open_pages' = open_pages + 1
    /\ UNCHANGED <<matcher, pc, semaphore, annotVars, fnVars, embedVars, hiVars,
                   fieldVars>>

\* neptun, get_inner_categories lines 30 and 34: the page is closed on both
\* paths; the list returned has inner categories or has none
CloseInnerPage ==
    /\ pc = "gather"
    /\ matcher = "neptun_scraper"
    /\ \E to \in {"between", "before_main"} : Move("inner", to)
    /\ open_pages' = open_pages - 1
    /\ UNCHANGED <<matcher, pc, semaphore, annotVars, fnVars, embedVars, hiVars,
                   fieldVars>>

\* scrape_products: page = await context.new_page()
OpenListingPage ==
    /\ pc = "gather"
    /\ \E call \in ListingCalls : Move(call[1], call[2])
    /\ open_pages' = open_pages + 1
    /\ UNCHANGED <<matcher, pc, semaphore, annotVars, fnVars, embedVars, hiVars,
                   fieldVars>>

\* get_specs: page = await context.new_page(), while the listing page of the
\* caller stays open
OpenSpecsPage ==
    /\ pc = "gather"
    /\ \E call \in ListingCalls :
          Move(call[2], IF call[2] = "listing" THEN "specs" ELSE "main_specs")
    /\ open_pages' = open_pages + 1
    /\ UNCHANGED <<matcher, pc, semaphore, annotVars, fnVars, embedVars, hiVars,
                   fieldVars>>

\* get_specs: await page.close(), on both paths in neptun (lines 48 and 52),
\* on the path without exception in tehnomarket (line 25)
CloseSpecsPage ==
    /\ pc = "gather"
    /\ \E call \in ListingCalls :
          Move(IF call[2] = "listing" THEN "specs" ELSE "main_specs", call[2])
    /\ open_pages' = open_pages - 1
    /\ UNCHANGED <<matcher, pc, semaphore, annotVars, fnVars, embedVars, hiVars,
                   fieldVars>>

\* tehnomarket, get_specs lines 27-29: an exception after new_page returns ""
\* and the page stays open
SpecsPageLeaks ==
    /\ pc = "gather"
    /\ matcher = "tehnomarket_scraper"
    /\ open_pages - PagesHeld < MaxLeakedPages
    /\ Move("specs", "listing")
    /\ UNCHANGED <<matcher, pc, semaphore, open_pages, annotVars, fnVars,
                   embedVars, hiVars, fieldVars>>

\* scrape_products: await page.close() and the return; the coroutine that
\* returns from its last call leaves "async with semaphore"
CloseListingPage ==
    /\ pc = "gather"
    /\ \E call \in ListingCalls :
          /\ Move(call[2], call[3])
          /\ semaphore' = Released(call[3])
    /\ open_pages' = open_pages - 1
    /\ UNCHANGED <<matcher, pc, annotVars, fnVars, embedVars, hiVars, fieldVars>>

\* scrape_products, neptun lines 152-154 and tehnomarket lines 81-82: an
\* exception after new_page ends the call and the page stays open
ListingPageLeaks ==
    /\ pc = "gather"
    /\ open_pages - PagesHeld < MaxLeakedPages
    /\ \E call \in ListingCalls :
          /\ Move(call[2], call[3])
          /\ semaphore' = Released(call[3])
    /\ UNCHANGED <<matcher, pc, open_pages, annotVars, fnVars, embedVars, hiVars,
                   fieldVars>>

\* main: asyncio.gather has returned, the products are saved and
\* context.close() closes every page
ScraperClose ==
    /\ pc = "gather"
    /\ \A p \in Positions \ {"done"} : page_tasks[p] = 0
    /\ pc' = "closed"
    /\ open_pages' = 0
    /\ UNCHANGED <<matcher, semaphore, page_tasks, annotVars, fnVars, embedVars,
                   hiVars, fieldVars>>

\* the stages that are not running while a scraper runs
IdleAnnotation ==
    /\ df = <<>>
    /\ saved = <<>>
    /\ pending = <<>>
    /\ batch_start = 0
    /\ written = 0
    /\ tasks = <<>>
    /\ sent = {}

InitScraperRun ==
    InitScraper /\ IdleAnnotation /\ IdleEmbedding /\ IdleField /\ IdleFn
        /\ title_threshold_hi = 0 /\ spec_threshold_hi = 0
        /\ matched_store2_indices_hi = {} /\ merged_rows_hi = <<>>

NextScraper ==
    \/ ScrapeAcquire
    \/ OpenInnerPage
    \/ CloseInnerPage
    \/ OpenListingPage
    \/ OpenSpecsPage
    \/ CloseSpecsPage
    \/ SpecsPageLeaks
    \/ CloseListingPage
    \/ ListingPageLeaks
    \/ ScraperClose

SpecScraper == InitScraperRun /\ [][NextScraper]_vars

-----------------------------------------------------------------------------
(* The annotation stages: main() and the retry loop of                       *)
(* src/2_categorization/anhoch/categorizer.py,                               *)
(* src/2_categorization/anhoch/categorizer_continuer.py,                     *)
(* src/3_specs_to_json/anhoch/specs_extraction.py and                        *)
(* src/4_name_extraction/anhoch/model_name_extraction.py.  A row of the      *)
(* table is a record: input tells what the request of the row would find     *)
(* ("ok", "nan" for a missing Title or Specs cell, "no_schema" for a         *)
(* Category without schema), value is the column the stage fills (Category,  *)
(* extraction_status, Model Name) and payload the extracted_specs column.    *)
(* A coroutine moves from one await to the next in one step.                 *)

\* CONCURRENT_BATCH_SIZE, which is 20, 15 and 20 in the sources
CONCURRENT_BATCH_SIZE == 2

\* MAX_RETRIES of the four sources
MAX_RETRIES == 10

\* largest number of rows of the table
MaxTableRows == 3

AnnotationPrograms ==
    {"categorizer", "categorizer_continuer", "specs_extraction",
     "model_name_extraction"}

TableRow(input, value, payload) ==
    [input |-> input, value |-> value, payload |-> payload]

\* what a coroutine returns for its row: the value of the column and, in
\* specs_extraction, the JSON text of the rest of the dict
Result(value, payload) == [value |-> value, payload |-> payload]

NoResult == Result("", "")

\* the return after a successful request
AnswerOf(program) ==
    CASE program = "specs_extraction" -> Result("complete", "{\"ram\": 16}")
      [] program = "model_name_extraction" -> Result("RTX 4070", "")
      [] OTHER -> Result("Laptop", "")

\* the return before the loop, for a row whose Title or Specs is missing
MissingInputLabel(program) ==
    CASE program = "specs_extraction" -> Result("skipped_no_specs", "{}")
      [] program = "model_name_extraction" -> Result("No Title", "")
      [] OTHER -> Result("Unknown", "")

\* the return after an error that is not retryable
ErrorLabel(program) ==
    CASE program = "specs_extraction" -> Result("error", "{}")
      [] program = "model_name_extraction" -> Result("Extraction Error", "")
      [] OTHER -> Result("Categorization Error", "")

\* the return after the loop
RetriesFailedLabel(program) ==
    CASE program = "specs_extraction" -> Result("error_retries_failed", "{}")
      [] program = "model_name_extraction" ->
             Result("Extraction Error - Retries Failed", "")
      [] OTHER -> Result("Categorization Error", "")

\* texts that pd.read_csv reads as a missing value (among its default
\* na_values); the model holds a missing value as the empty text, which is
\* also what to_csv writes for it
NaValues == {"", "N/A"}

\* pd.read_csv on the column the stage fills
read_csv(table) ==
    [r \in 1..Len(table) |->
        IF table[r].value \in NaValues
        THEN [table[r] EXCEPT !.value = ""]
        ELSE table[r]]

\* the rows of pending_df; categorizer.py annotates every row
IsPending(program, row) ==
    CASE program = "categorizer" -> TRUE
      [] program = "specs_extraction" -> row.value # "complete"
      [] OTHER -> row.value = ""

\* the same bound taking every pending row
ChunkEnd_all(first, total) == total

\* end = min(start + CONCURRENT_BATCH_SIZE, total_pending)
ChunkEnd(first, total) == Min(first + CONCURRENT_BATCH_SIZE, total)

\* the same test with a range that is one value longer
AttemptsLeft_one_more(attempt) == attempt < MAX_RETRIES + 1

\* "for attempt in range(MAX_RETRIES)" has a next value
AttemptsLeft(attempt) == attempt < MAX_RETRIES

\* the indices of the rows of a table that satisfy a test, in order
RECURSIVE IndicesFrom(_, _, _)
IndicesFrom(table, pos, test) ==
    IF pos > Len(table) THEN <<>>
    ELSE IF test[pos] THEN <<pos>> \o IndicesFrom(table, pos + 1, test)
         ELSE IndicesFrom(table, pos + 1, test)

\* a coroutine of the batch for the row at an index
Coroutine(index) ==
    [index |-> index, pc |-> "created", attempt |-> 0, last |-> "none",
     result |-> NoResult]

\* the coroutine after its return statement: its loop variable is gone
ReturnedWith(task, last, result) ==
    [index |-> task.index, pc |-> "returned", attempt |-> 0, last |-> last,
     result |-> result]

\* df.at[index, ...] = ... for the result of a coroutine
WriteResult(program, row, result) ==
    IF program = "specs_extraction"
    THEN [row EXCEPT !.value = result.value, !.payload = result.payload]
    ELSE [row EXCEPT !.value = result.value]

\* the rows a stage can find: blank or already annotated (in the continuer
\* also with the Category "N/A"), and in specs_extraction a blank row whose
\* Category has no schema
TableRows(program) ==
    CASE program = "specs_extraction" ->
             {TableRow("ok", "", ""), TableRow("ok", "complete", "{\"ram\": 8}"),
              TableRow("no_schema", "", "")}
      [] program = "model_name_extraction" ->
             {TableRow("ok", "", ""), TableRow("ok", "GT 710", "")}
      [] program = "categorizer_continuer" ->
             {TableRow("ok", "", ""), TableRow("ok", "Monitor", ""),
              TableRow("ok", "N/A", "")}
      [] OTHER -> {TableRow("ok", "", ""), TableRow("ok", "Monitor", "")}

InitAnnotation ==
    /\ matcher \in AnnotationPrograms
    /\ pc = "start"
    /\ saved \in UNION {[1..n -> TableRows(matcher)] : n \in 1..MaxTableRows}
    /\ df = <<>>
    /\ pending = <<>>
    /\ batch_start = 0
    /\ written = 0
    /\ tasks = <<>>
    /\ sent = {}

\* main up to the loop over the batches: the table is read, the pending rows
\* are selected, and main returns when there is none
AnnotationLoad ==
    /\ matcher \in AnnotationPrograms
    /\ pc = "start"
    /\ df' = read_csv(saved)
    /\ pending' = IndicesFrom(df', 1,
                      [r \in 1..Len(df') |-> IsPending(matcher, df'[r])])
    /\ sent' = {}
    /\ pc' = IF pending' = <<>> THEN "end" ELSE "batch"
    /\ UNCHANGED <<matcher, saved, batch_start, written, tasks, scrapeVars, fnVars,
                   embedVars, hiVars, fieldVars>>

\* the head of the loop body: the coroutines of the chunk are created; in
\* specs_extraction a row without schema is marked instead, and a chunk
\* without coroutine goes on to the next chunk ("continue")
StartBatch ==
    /\ matcher \in AnnotationPrograms
    /\ pc = "batch"
    /\ LET end == ChunkEnd(batch_start, Len(pending))
           chunk == [k \in 1..(end - batch_start) |-> pending[batch_start + k]]
           has_schema == [k \in 1..Len(chunk) |-> df[chunk[k]].input # "no_schema"]
           requested == IndicesFrom(chunk, 1, has_schema)
       IN  /\ tasks' = [t \in 1..Len(requested) |-> Coroutine(chunk[requested[t]])]
           /\ df' = [r \in 1..Len(df) |->
                       IF \E k \in 1..Len(chunk) : chunk[k] = r /\ ~has_schema[k]
                       THEN [df[r] EXCEPT !.value = "skipped_no_schema"]
                       ELSE df[r]]
           /\ IF requested # <<>>
              THEN pc' = "gather" /\ UNCHANGED batch_start
              ELSE /\ batch_start' = batch_start + CONCURRENT_BATCH_SIZE
                   /\ pc' = IF batch_start' < Len(pending) THEN "batch" ELSE "end"
    /\ UNCHANGED <<matcher, saved, pending, written, sent, scrapeVars, fnVars,
                   embedVars, hiVars, fieldVars>>

\* a coroutine runs to its first await: it returns for a missing input, or
\* sends the request of attempt 0
TaskStarts ==
    /\ pc = "gather"
    /\ \E t \in 1..Len(tasks) :
          /\ tasks[t].pc = "created"
          /\ IF df[tasks[t].index].input = "nan"
             THEN /\ tasks' = [tasks EXCEPT ![t] =
                                  ReturnedWith(@, "none", MissingInputLabel(matcher))]
                  /\ UNCHANGED sent
             ELSE /\ tasks' = [tasks EXCEPT ![t].pc = "request"]
                  /\ sent' = sent \cup {tasks[t].index}
    /\ UNCHANGED <<matcher, pc, df, saved, pending, batch_start, written, scrapeVars,
                   fnVars, embedVars, hiVars, fieldVars>>

\* the request returns an answer: the coroutine returns it
ServiceAnswers ==
    /\ pc = "gather"
    /\ \E t \in 1..Len(tasks) :
          /\ tasks[t].pc = "request"
          /\ tasks' = [tasks EXCEPT ![t] =
                          ReturnedWith(@, "answer", AnswerOf(matcher))]
    /\ UNCHANGED <<matcher, pc, df, saved, pending, batch_start, written, sent,
                   scrapeVars, fnVars, embedVars, hiVars, fieldVars>>

\* the request raises an error that is_retryable_error rejects
ServiceFailsOther ==
    /\ pc = "gather"
    /\ \E t \in 1..Len(tasks) :
          /\ tasks[t].pc = "request"
          /\ tasks' = [tasks EXCEPT ![t] =
                          ReturnedWith(@, "other", ErrorLabel(matcher))]
    /\ UNCHANGED <<matcher, pc, df, saved, pending, batch_start, written, sent,
                   scrapeVars, fnVars, embedVars, hiVars, fieldVars>>

\* the request raises a retryable error: await asyncio.sleep(delay)
ServiceFailsRetryable ==
    /\ pc = "gather"
    /\ \E t \in 1..Len(tasks) :
          /\ tasks[t].pc = "request"
          /\ tasks' = [tasks EXCEPT ![t].pc = "sleep", ![t].last = "retryable"]
    /\ UNCHANGED <<matcher, pc, df, saved, pending, batch_start, written, sent,
                   scrapeVars, fnVars, embedVars, hiVars, fieldVars>>

\* the sleep is over: the loop sends the request of the next attempt, or the
\* loop is over and the coroutine returns
TaskWakes ==
    /\ pc = "gather"
    /\ \E t \in 1..Len(tasks) :
          /\ tasks[t].pc = "sleep"
          /\ IF AttemptsLeft(tasks[t].attempt + 1)
             THEN /\ tasks' = [tasks EXCEPT ![t].pc = "request",
                                            ![t].attempt = @ + 1]
                  /\ sent' = sent \cup {tasks[t].index}
             ELSE /\ tasks' = [tasks EXCEPT ![t] =
                                  ReturnedWith(@, "retryable",
                                               RetriesFailedLabel(matcher))]
                  /\ UNCHANGED sent
    /\ UNCHANGED <<matcher, pc, df, saved, pending, batch_start, written, scrapeVars,
                   fnVars, embedVars, hiVars, fieldVars>>

\* asyncio.gather returns.  specs_extraction sleeps before the write of
\* each result, so its main is next at the sleep before the first write;
\* the other programs write the results into the table without an await
GatherReturns ==
    /\ pc = "gather"
    /\ \A t \in 1..Len(tasks) : tasks[t].pc = "returned"
    /\ IF matcher = "specs_extraction"
       THEN /\ pc' = "write"
            /\ UNCHANGED <<df, tasks>>
       ELSE /\ df' = [r \in 1..Len(df) |->
                        IF \E t \in 1..Len(tasks) : tasks[t].index = r
                        THEN WriteResult(matcher, df[r],
                                 (CHOOSE task \in Range(tasks) :
                                      task.index = r).result)
                        ELSE df[r]]
            /\ tasks' = <<>>
            /\ pc' = "save"
    /\ UNCHANGED <<matcher, saved, pending, batch_start, written, sent,
                   scrapeVars, fnVars, embedVars, hiVars, fieldVars>>

\* specs_extraction: the sleep before a result is over and the result is
\* written into the table; main is next at the sleep before the following
\* result, or the loop over the results is over
WriteNextResult ==
    /\ matcher = "specs_extraction"
    /\ pc = "write"
    /\ written < Len(tasks)
    /\ LET task == tasks[written + 1]
       IN  df' = [df EXCEPT ![task.index] =
                     WriteResult(matcher, df[task.index], task.result)]
    /\ IF written + 1 < Len(tasks)
       THEN /\ written' = written + 1
            /\ UNCHANGED <<pc, tasks>>
       ELSE /\ written' = 0
            /\ tasks' = <<>>
            /\ pc' = "save"
    /\ UNCHANGED <<matcher, saved, pending, batch_start, sent, scrapeVars,
                   fnVars, embedVars, hiVars, fieldVars>>

\* df.to_csv(OUTPUT_CSV), then the pause between two batches begins
SaveTable ==
    /\ pc = "save"
    /\ saved' = df
    /\ pc' = "cooldown"
    /\ UNCHANGED <<matcher, df, pending, batch_start, written, tasks, sent, scrapeVars,
                   fnVars, embedVars, hiVars, fieldVars>>

\* the pause is over: the loop goes on to the next chunk or ends
NextBatch ==
    /\ pc = "cooldown"
    /\ batch_start' = batch_start + CONCURRENT_BATCH_SIZE
    /\ pc' = IF batch_start' < Len(pending) THEN "batch" ELSE "end"
    /\ UNCHANGED <<matcher, df, saved, pending, written, tasks, sent, scrapeVars,
                   fnVars, embedVars, hiVars, fieldVars>>

\* the programs that are not running while an annotation stage runs
IdleScraper ==
    /\ semaphore = 0
    /\ open_pages = 0
    /\ page_tasks = <<>>

InitAnnotationRun ==
    InitAnnotation /\ IdleScraper /\ IdleEmbedding /\ IdleField /\ IdleFn
        /\ InitHiIdle

NextAnnotation ==
    \/ AnnotationLoad
    \/ StartBatch
    \/ TaskStarts
    \/ ServiceAnswers
    \/ ServiceFailsOther
    \/ ServiceFailsRetryable
    \/ TaskWakes
    \/ GatherReturns
    \/ WriteNextResult
    \/ SaveTable
    \/ NextBatch

SpecAnnotation == InitAnnotationRun /\ [][NextAnnotation]_vars

\* one call of the retry function: a stage whose table has one pending row,
\* with or without the input the function asks for
InitRetry ==
    /\ matcher \in AnnotationPrograms
    /\ pc = "start"
    /\ saved \in {<<TableRow(input, "", "")>> : input \in {"ok", "nan"}}
    /\ df = <<>>
    /\ pending = <<>>
    /\ batch_start = 0
    /\ written = 0
    /\ tasks = <<>>
    /\ sent = {}

InitRetryRun ==
    InitRetry /\ IdleScraper /\ IdleEmbedding /\ IdleField /\ IdleFn
        /\ InitHiIdle

NextRetry == NextAnnotation

\* the event loop runs a coroutine that is ready: a request returns or
\* raises, and a sleep ends after its delay
SpecRetry == InitRetryRun /\ [][NextRetry]_vars /\ WF_vars(NextRetry)

-----------------------------------------------------------------------------
(* Specification *)

\* a run of the embedding matcher
InitEmbeddingRun == InitEmbedding /\ InitHiIdle /\ IdleStages /\ IdleField /\ IdleFn

NextEmbedding == EmbedLoopBody \/ EmbedNextItem \/ EmbedWrite

SpecEmbedding == InitEmbeddingRun /\ [][NextEmbedding]_vars

\* a run of the field matcher
InitFieldRun == InitField /\ IdleEmbedding /\ InitHiIdle /\ IdleStages /\ IdleFn

NextField ==
    \/ BuildModelNameMap
    \/ Phase1Iter
    \/ BuildCategoryMap
    \/ Phase2Iter
    \/ FieldReturn

SpecField == InitFieldRun /\ [][NextField]_vars

\* a run of either matcher, or the calls of one of their functions
Init ==
    \/ InitEmbeddingRun
    \/ InitFieldRun
    \/ InitSimilarityRun
    \/ InitGuardRun
    \/ InitCleanRun
    \/ InitFlattenRun
    \/ InitKeyOrderRun
    \/ InitLoadRun

Next ==
    \/ NextEmbedding
    \/ NextField
    \/ NextSimilarity
    \/ NextGuard
    \/ NextClean
    \/ NextFlatten
    \/ NextKeyOrder
    \/ NextLoad

Spec == Init /\ [][Next]_vars

NextMono == MonoLoopBody \/ EmbedNextItem \/ EmbedWrite

SpecMono == InitMono /\ [][NextMono]_vars

-----------------------------------------------------------------------------
(* The embedding matcher on catalog A and on catalog A cut short *)

NextTruncated ==
    \/ FirstRunLoopBody
    \/ EmbedNextItem
    \/ EmbedWrite
    \/ SecondRunStart
    \/ SecondRunLoopBody
    \/ SecondRunNextItem
    \/ SecondRunWrite

SpecTruncated == InitTruncated /\ [][NextTruncated]_vars

-----------------------------------------------------------------------------
(* Properties: vocabulary *)

\* the last element of a non-empty list
Last(list) == list[Len(list)]

\* no A index and no B index occurs in two rows of the embedding matcher
ExclusiveRows(rows) ==
    \A a, b \in 1..Len(rows) :
        a # b => /\ rows[a].index_store1 # rows[b].index_store1
                 /\ rows[a].index_store2 # rows[b].index_store2

\* the A products and the B products of the committed matches
ClaimedA == IF matcher = "embedding"
            THEN {merged_rows[n].index_store1 : n \in 1..Len(merged_rows)}
            ELSE {matches[n].product1 : n \in 1..Len(matches)}

ClaimedB == IF matcher = "embedding"
            THEN {merged_rows[n].index_store2 : n \in 1..Len(merged_rows)}
            ELSE {matches[n].product2 : n \in 1..Len(matches)}

\* the (A, B) pair of the list of committed matches of the running matcher
CommittedPairs ==
    IF matcher = "embedding"
    THEN [n \in 1..Len(merged_rows) |->
             <<merged_rows[n].index_store1, merged_rows[n].index_store2>>]
    ELSE [n \in 1..Len(matches) |-> <<matches[n].product1, matches[n].product2>>]

\* spec overlap score of A product a and B product b
Score(a, b) == calculate_spec_similarity(products1[a].extracted_specs,
                                         products2[b].extracted_specs)

SameScore(x, y) == x.num * y.den = y.num * x.den

SameModelAndCategory(a, b) ==
    /\ products1[a].norm_model_name = products2[b].norm_model_name
    /\ products1[a].norm_category = products2[b].norm_category

SameCategory(a, b) == products1[a].norm_category = products2[b].norm_category

\* the B products no committed match holds
FreeB == (1..Len(products2)) \ ClaimedB

\* the step taken is the phase-1 iteration for A product p1 + 1
IsPhase1Step == matcher = "field" /\ pc = "phase1" /\ p1' = p1 + 1

\* the step taken is the phase-2 iteration for the next leftover A product
IsPhase2Step == matcher = "field" /\ pc = "phase2" /\ p2' = p2 + 1

\* the step committed a match, with the given A product and tag
Commits(a, tag) ==
    /\ Len(matches') = Len(matches) + 1
    /\ Last(matches').product1 = a
    /\ Last(matches').match_type = tag

-----------------------------------------------------------------------------
(* C1 - C5: the embedding matcher *)

\* C1: in a run of the embedding matcher no catalog-B index and no catalog-A
\* index appears in more than one committed match.
C1_EmbeddingExclusive ==
    matcher = "embedding" => ExclusiveRows(merged_rows)

\* two matches are committed, and the B item the first A item took was the
\* most title-similar candidate of the second A item
C1_Witness ==
    /\ matcher = "embedding"
    /\ pc = "done"
    /\ Len(merged_rows) = 2
    /\ candidate_indices[1] = merged_rows[1].index_store2
    /\ merged_rows[2].index_store2 # merged_rows[1].index_store2

\* C2: in a run of the two-phase field matcher no A record and no B record
\* appears in more than one committed match, phases 1 and 2 taken together.
C2_FieldExclusive ==
    matcher = "field" =>
        \A a, b \in 1..Len(matches) :
            a # b => /\ matches[a].product1 # matches[b].product1
                     /\ matches[a].product2 # matches[b].product2

\* a phase-1 match and a phase-2 match, where the B product consumed in
\* phase 1 has the category of the A product matched in phase 2 and a score
\* above the threshold with it
C2_Witness ==
    /\ matcher = "field"
    /\ pc = "done"
    /\ Len(matches) = 2
    /\ matches[1].match_type = "Model Name & Category"
    /\ matches[2].match_type = "Category & Specs"
    /\ SameCategory(matches[2].product1, matches[1].product2)
    /\ Greater(Score(matches[2].product1, matches[1].product2),
               spec_similarity_threshold)

\* C3 as stated: the pairs committed with the raised thresholds are a subset
\* of the pairs committed with the lower thresholds.
C3_Original ==
    pc = "done" =>
        {<<merged_rows_hi[n].index_store1, merged_rows_hi[n].index_store2>> :
            n \in 1..Len(merged_rows_hi)}
        \subseteq
        {<<merged_rows[n].index_store1, merged_rows[n].index_store2>> :
            n \in 1..Len(merged_rows)}

\* C3 (amended): every pair (i, j) committed with the raised thresholds passes
\* the lower thresholds, and with the lower thresholds either i is committed
\* with a B item of at least the same combined score (j itself or another),
\* or j is committed to an A item that comes before i.
C3_RaisedPairsAdmissible ==
    \A n \in 1..Len(merged_rows_hi) :
        LET r == merged_rows_hi[n]
        IN  /\ r.Title_Similarity_Score >= title_threshold
            /\ r.Specs_Similarity_Score >= spec_threshold
            /\ \E m \in 1..Len(merged_rows) :
                  LET q == merged_rows[m]
                  IN  \/ /\ q.index_store1 = r.index_store1
                         /\ q.Title_Similarity_Score + q.Specs_Similarity_Score
                              >= r.Title_Similarity_Score + r.Specs_Similarity_Score
                      \/ /\ q.index_store2 = r.index_store2
                         /\ q.index_store1 < r.index_store1

\* the raised thresholds commit a pair the lower thresholds did not commit
C3_Witness ==
    /\ pc = "done"
    /\ \E n \in 1..Len(merged_rows_hi) :
          \A m \in 1..Len(merged_rows) :
              <<merged_rows[m].index_store1, merged_rows[m].index_store2>>
                # <<merged_rows_hi[n].index_store1, merged_rows_hi[n].index_store2>>

\* C4: in either matcher the list of committed matches only grows, by one
\* match at a time, and a match is only committed between an A record and a
\* B record that no earlier match has claimed: a record goes from unclaimed to
\* claimed at most once and stays claimed.
C4_ClaimedOnlyGrows ==
    [][ /\ Len(CommittedPairs') >= Len(CommittedPairs)
        /\ SubSeq(CommittedPairs', 1, Len(CommittedPairs)) = CommittedPairs
        /\ Len(CommittedPairs') <= Len(CommittedPairs) + 1
        /\ Len(CommittedPairs') = Len(CommittedPairs) + 1 =>
              /\ Last(CommittedPairs')[1] \notin ClaimedA
              /\ Last(CommittedPairs')[2] \notin ClaimedB
        /\ matcher = "embedding" => matched_store2_indices' = ClaimedB' ]_vars

\* phase 2 has committed both A products, which are of the same category, so
\* the B product the first one claimed was a candidate of the second one
C4_Witness ==
    /\ matcher = "field"
    /\ pc = "done"
    /\ Len(matches) = 2
    /\ matches[1].match_type = "Category & Specs"
    /\ matches[2].match_type = "Category & Specs"
    /\ SameCategory(matches[2].product1, matches[1].product2)
    /\ Greater(Score(matches[2].product1, matches[1].product2),
               spec_similarity_threshold)

\* the B items the item just processed could be committed with: among the
\* candidates, unclaimed before the step, passing both thresholds and the guard
Eligible ==
    {j \in Range(candidate_indices') :
        /\ j \notin matched_store2_indices
        /\ title_row'[j] >= title_threshold
        /\ spec_row'[j] >= spec_threshold
        /\ ~GuardRejects(specs1_clean_str', specs_clean2[j])}

\* C is a set of the k most title-similar B items (all of them when k exceeds
\* the size of catalog B)
IsTopK(C, k) ==
    /\ C \subseteq 1..NumB
    /\ Cardinality(C) = Min(k, NumB)
    /\ \A j \in C : \A other \in (1..NumB) \ C : title_row'[j] >= title_row'[other]

\* C5: for each A item, in order, the embedding matcher commits exactly a B
\* item of highest combined score among those of the top_k by title
\* similarity that are unclaimed, pass both thresholds and the guard, and it
\* commits nothing when there is none.
C5_CommitsBestEligible ==
    [][ (matcher = "embedding" /\ i' = i + 1) =>
          /\ IsTopK(Range(candidate_indices'), top_k)
          /\ \A a \in 1..(Len(candidate_indices') - 1) :
                title_row'[candidate_indices'[a]] >= title_row'[candidate_indices'[a + 1]]
          /\ IF Eligible = {}
             THEN merged_rows' = merged_rows
             ELSE /\ Len(merged_rows') = Len(merged_rows) + 1
                  /\ SubSeq(merged_rows', 1, Len(merged_rows)) = merged_rows
                  /\ LET r == Last(merged_rows')
                     IN  /\ r.index_store1 = i + 1
                         /\ r.index_store2 \in Eligible
                         /\ r.Title_Similarity_Score = title_row'[r.index_store2]
                         /\ r.Specs_Similarity_Score = spec_row'[r.index_store2]
                         /\ \A j \in Eligible :
                               title_row'[j] + spec_row'[j]
                                 <= title_row'[r.index_store2] + spec_row'[r.index_store2]
      ]_vars

\* the item just processed was committed with a B item although another
\* unclaimed candidate, passing thresholds and guard, has a higher title score
C5_Witness ==
    /\ matcher = "embedding"
    /\ pc = "next"
    /\ merged_rows # <<>>
    /\ Last(merged_rows).index_store1 = i
    /\ \E j \in Range(candidate_indices) :
          /\ j \notin matched_store2_indices
          /\ title_row[j] > title_row[Last(merged_rows).index_store2]
          /\ title_row[j] >= title_threshold
          /\ spec_row[j] >= spec_threshold
          /\ ~GuardRejects(specs1_clean_str, specs_clean2[j])

-----------------------------------------------------------------------------
(* C6 - C10: the two-phase field matcher *)

\* C6: an A record whose normalized model name is the empty string is never
\* committed with the tag of phase 1.
C6_Phase1SkipsEmptyModelName ==
    matcher = "field" =>
        \A n \in 1..Len(matches) :
            matches[n].match_type = "Model Name & Category" =>
                products1[matches[n].product1].norm_model_name # <<>>

\* C7: when phase 1 processes an A record and some B record no match has
\* consumed has the same normalized model name and the same normalized
\* category, phase 1 commits the A record, whatever the spec overlap score.
C7_Phase1NoSpecThreshold ==
    [][ IsPhase1Step =>
          ((\E b \in FreeB : SameModelAndCategory(p1 + 1, b)) =>
              Commits(p1 + 1, "Model Name & Category")) ]_vars

\* phase 1 has just committed a pair whose spec overlap score is 0
C7_Witness ==
    /\ matcher = "field"
    /\ pc = "phase1"
    /\ matches # <<>>
    /\ Last(matches).product1 = p1
    /\ Last(matches).match_type = "Model Name & Category"
    /\ Last(matches).score.num = 0
    /\ Score(Last(matches).product1, Last(matches).product2).num = 0

\* C8: the B record phase 1 commits is, among the unconsumed B records with
\* the A record's normalized model name and category, one of highest spec
\* overlap score, and among those the first in the order of catalog B.
C8_Phase1BestFirst ==
    [][ (IsPhase1Step /\ Len(matches') = Len(matches) + 1) =>
          LET a == p1 + 1
              cands == {b \in FreeB : SameModelAndCategory(a, b)}
              c == Last(matches').product2
          IN  /\ c \in cands
              /\ SameScore(Last(matches').score, Score(a, c))
              /\ \A b \in cands :
                    /\ ~Greater(Score(a, b), Score(a, c))
                    /\ SameScore(Score(a, b), Score(a, c)) => c <= b ]_vars

\* phase 1 has just committed a B record that comes after a candidate of
\* lower score and before a candidate of the same score
C8_Witness ==
    /\ matcher = "field"
    /\ pc = "phase1"
    /\ matches # <<>>
    /\ Last(matches).product1 = p1
    /\ LET a == Last(matches).product1
           c == Last(matches).product2
       IN  /\ \E b \in FreeB :
                 /\ b > c
                 /\ SameModelAndCategory(a, b)
                 /\ SameScore(Score(a, b), Score(a, c))
           /\ \E b \in FreeB :
                 /\ b < c
                 /\ SameModelAndCategory(a, b)
                 /\ Greater(Score(a, c), Score(a, b))

\* C9: every match committed in phase 2 has a spec overlap score strictly
\* greater than spec_similarity_threshold.
C9_Phase2AboveThreshold ==
    matcher = "field" =>
        \A n \in 1..Len(matches) :
            matches[n].match_type = "Category & Specs" =>
                /\ Greater(Score(matches[n].product1, matches[n].product2),
                           spec_similarity_threshold)
                /\ SameScore(matches[n].score,
                             Score(matches[n].product1, matches[n].product2))

\* the run is over and has left unmatched an A record and a B record of the
\* same category whose score equals the threshold: the B record was a
\* candidate of the A record in phase 2
C9_Witness ==
    /\ matcher = "field"
    /\ pc = "done"
    /\ \E a \in (1..Len(products1)) \ ClaimedA : \E b \in FreeB :
          /\ SameCategory(a, b)
          /\ SameScore(Score(a, b), spec_similarity_threshold)
          /\ \A o \in 1..Len(products2) :
                SameCategory(a, o) => ~Greater(Score(a, o), spec_similarity_threshold)

\* the leftover B records that tie for the highest score above the threshold
\* with leftover A record a
Phase2Best(a) ==
    LET cands == {b \in FreeB : SameCategory(a, b)}
    IN  {b \in cands :
            /\ Greater(Score(a, b), spec_similarity_threshold)
            /\ \A o \in cands : ~Greater(Score(a, o), Score(a, b))}

\* C10 as stated: of the leftover B records that tie for the highest score
\* above the threshold, phase 2 commits the one that comes first in catalog B.
C10_Original ==
    [][ (IsPhase2Step /\ Len(matches') = Len(matches) + 1) =>
          LET c == Last(matches').product2
          IN  /\ c \in Phase2Best(still_unmatched1[p2 + 1])
              /\ \A b \in Phase2Best(still_unmatched1[p2 + 1]) : c <= b ]_vars

\* position in catalog B of the first record with the model name of record b
FirstWithModelName(b) ==
    CHOOSE f \in 1..Len(products2) :
        /\ products2[f].norm_model_name = products2[b].norm_model_name
        /\ \A o \in 1..(f - 1) :
              products2[o].norm_model_name # products2[b].norm_model_name

\* b is encountered no later than o by phase 2: the leftover B records come
\* group by group, the groups (one per normalized model name) in the order of
\* their first record in catalog B, and in catalog order inside a group
EncounteredBefore(b, o) ==
    \/ FirstWithModelName(b) < FirstWithModelName(o)
    \/ FirstWithModelName(b) = FirstWithModelName(o) /\ b <= o

\* C10 (amended): of the leftover B records that tie for the highest score
\* above the threshold, phase 2 commits the one encountered first, the
\* leftover records being encountered grouped by normalized model name
\* (groups in order of first appearance in catalog B, catalog order inside a
\* group).
C10_Phase2FirstEncountered ==
    [][ (IsPhase2Step /\ Len(matches') = Len(matches) + 1) =>
          LET c == Last(matches').product2
          IN  /\ c \in Phase2Best(still_unmatched1[p2 + 1])
              /\ \A b \in Phase2Best(still_unmatched1[p2 + 1]) :
                    EncounteredBefore(c, b) ]_vars

\* phase 2 has just committed a B record although a leftover B record that
\* comes earlier in catalog B ties with it
C10_Witness ==
    /\ matcher = "field"
    /\ pc = "phase2"
    /\ p2 > 0
    /\ matches # <<>>
    /\ Last(matches).match_type = "Category & Specs"
    /\ Last(matches).product1 = still_unmatched1[p2]
    /\ \E b \in FreeB :
          /\ b < Last(matches).product2
          /\ SameCategory(Last(matches).product1, b)
          /\ SameScore(Score(Last(matches).product1, b),
                       Score(Last(matches).product1, Last(matches).product2))

-----------------------------------------------------------------------------
(* Claims about calculate_spec_similarity *)

\* the call of calculate_spec_similarity has returned
SimilarityReturned == matcher = "calculate_spec_similarity" /\ pc = "return"

\* C11: a key that only one of the two maps has never counts as an equal key,
\* whatever value that map holds for it: the number of equal keys of two
\* non-empty maps is at most the number of keys both maps have.
C11_OneSidedKeyNeverEqual ==
    (/\ SimilarityReturned
     /\ DOMAIN fn_args[1] # {}
     /\ DOMAIN fn_args[2] # {})
    => fn_result.num <= Cardinality(DOMAIN fn_args[1] \cap DOMAIN fn_args[2])

\* the value a map gives for a key of the union: null for a key it lacks
ValueAt(specs, key) == IF key \in DOMAIN specs THEN specs[key] ELSE None

\* two values are equal: two strings after lower-casing and trimming, any
\* other two values when they are the same value
EqualValues(v1, v2) ==
    IF v1.kind = "str" /\ v2.kind = "str"
    THEN Strip(Lower(v1.text)) = Strip(Lower(v2.text))
    ELSE v1 = v2

\* C12: the score is 0 whenever at least one of the two maps is empty, both
\* empty included; for two non-empty maps it is the number of keys of the
\* union with equal values over the number of keys of the union, which lies
\* between 0 and 1.
C12_EmptyMapScoresZero ==
    SimilarityReturned =>
        LET specs1 == fn_args[1]
            specs2 == fn_args[2]
            union == DOMAIN specs1 \cup DOMAIN specs2
        IN  IF DOMAIN specs1 = {} \/ DOMAIN specs2 = {}
            THEN fn_result.num = 0 /\ fn_result.den > 0
            ELSE /\ fn_result.den = Cardinality(union)
                 /\ fn_result.num =
                        Cardinality({key \in union :
                            EqualValues(ValueAt(specs1, key), ValueAt(specs2, key))})
                 /\ 0 <= fn_result.num
                 /\ fn_result.num <= fn_result.den

\* two empty maps were scored 0
C12_Witness ==
    /\ SimilarityReturned
    /\ DOMAIN fn_args[1] = {}
    /\ DOMAIN fn_args[2] = {}
    /\ fn_result = Fraction(0, 1)

\* the string form of a JSON value
StringForm(val) == IF val.kind = "none" THEN <<"n", "u", "l", "l">> ELSE val.text

\* C13: the two values of a key are compared as case-insensitive trimmed
\* strings whatever their JSON types: for two maps with the same keys the
\* number of equal keys is the number of keys whose string forms are equal
\* after trimming and lower-casing (so 24 and "24" count as equal).
C13_ComparedAsStrings ==
    (/\ SimilarityReturned
     /\ DOMAIN fn_args[1] # {}
     /\ DOMAIN fn_args[1] = DOMAIN fn_args[2])
    => fn_result.num =
          Cardinality({key \in DOMAIN fn_args[1] :
              Strip(Lower(StringForm(fn_args[1][key])))
                  = Strip(Lower(StringForm(fn_args[2][key])))})

-----------------------------------------------------------------------------
(* Claims about have_no_shared_model_tokens *)

\* the call of the guard on the two strings has returned
GuardReturned == matcher = "have_no_shared_model_tokens" /\ pc # "call"

\* the digit-bearing alphanumeric tokens of the two strings do not meet
DisjointTokens(x, y) == ModelTokens(Lower(x)) \cap ModelTokens(Lower(y)) = {}

\* C14, as stated: the guard function returns true if and only if the token
\* sets of the two strings have an empty intersection and both strings are
\* longer than 10 characters; with a string of 10 characters or fewer it
\* returns false.
C14_Original ==
    GuardReturned =>
        (fn_result[1] <=> /\ DisjointTokens(fn_args[1], fn_args[2])
                          /\ Len(fn_args[1]) > 10
                          /\ Len(fn_args[2]) > 10)

\* C14, amended: the guard function returns true if and only if the token
\* sets of the two strings have an empty intersection, whatever the lengths
\* of the strings; its caller rejects the candidate if and only if, in
\* addition, both strings are longer than 10 characters.
C14_GuardIgnoresLength ==
    GuardReturned =>
        /\ fn_result[1] <=> DisjointTokens(fn_args[1], fn_args[2])
        /\ GuardRejects(fn_args[1], fn_args[2])
              <=> /\ fn_result[1]
                  /\ Len(fn_args[1]) > 10
                  /\ Len(fn_args[2]) > 10

\* the function returned true for two short strings without a common token
C14_Witness ==
    /\ GuardReturned
    /\ Len(fn_args[1]) <= 10
    /\ Len(fn_args[2]) <= 10
    /\ ModelTokens(fn_args[1]) # {}
    /\ ModelTokens(fn_args[2]) # {}
    /\ fn_result[1]

\* C15: the guard is symmetric: called on (x, y) and on (y, x) it returns
\* the same value.
C15_GuardSymmetric ==
    (matcher = "have_no_shared_model_tokens" /\ pc = "return")
    => fn_result[1] = fn_result[2]

\* both calls returned on two different strings of which only one has tokens
C15_Witness ==
    /\ matcher = "have_no_shared_model_tokens"
    /\ pc = "return"
    /\ ModelTokens(fn_args[1]) # {}
    /\ ModelTokens(fn_args[2]) = {}
    /\ Len(fn_args[2]) > 0
    /\ fn_result = <<TRUE, TRUE>>

-----------------------------------------------------------------------------
(* Claims about clean_text *)

\* C19: clean_text is idempotent: called on the string it returned, it
\* returns that string.
C19_CleanTextIdempotent ==
    (matcher = "clean_text" /\ pc = "return") => fn_result[2] = fn_result[1]

\* both calls returned on a text that the first call changed in every way:
\* a letter lower-cased, punctuation removed, whitespace collapsed
C19_Witness ==
    /\ matcher = "clean_text"
    /\ pc = "return"
    /\ fn_args[1] = Str(<<"A", "\t", "-">>)
    /\ fn_result = <<(<<"a">>), (<<"a">>)>>

-----------------------------------------------------------------------------
(* Claims about the flattening of the specification payload *)

\* the two calls of parse_and_convert_specs are over: the first returned a
\* string, the second returned or raised
FlattenedTwice == matcher = "parse_and_convert_specs" /\ Len(fn_result) = 2

\* C16, as stated: flattening is idempotent on its own output: for every raw
\* payload, the call on the string that the first call returned returns that
\* string unchanged.
C16_Original == FlattenedTwice => fn_result[2] = fn_result[1]

\* the string is not blank and does not parse as JSON
PlainText(text) == Strip(text) # <<>> /\ ~json_loads(text).ok

\* C16, amended: the call on the string that the first call returned returns
\* that string unchanged whenever that string is empty or is plain text
\* (not blank, not valid JSON); a flattened string that is blank or is itself
\* valid JSON is flattened once more.
C16_IdempotentOnPlainText ==
    (/\ FlattenedTwice
     /\ fn_result[1].text = <<>> \/ PlainText(fn_result[1].text))
    => fn_result[2] = fn_result[1]

\* a JSON object was flattened to a plain text, which the second call returned
C16_Witness ==
    /\ FlattenedTwice
    /\ fn_args[1] = Str(ObjectBA)
    /\ fn_result[1] = Returned(<<"a", " ", "x", " ", "b", " ", "1">>)
    /\ fn_result[2] = fn_result[1]

\* the two parsed values hold the same key/value pairs at every level
RECURSIVE SameUpToKeyOrder(_, _)
SameUpToKeyOrder(v, w) ==
    IF v.kind # w.kind THEN FALSE
    ELSE IF v.kind = "dict"
    THEN /\ Range(Keys(v.entries)) = Range(Keys(w.entries))
         /\ \A key \in Range(Keys(v.entries)) :
               SameUpToKeyOrder(ValueOf(v.entries, key), ValueOf(w.entries, key))
    ELSE IF v.kind = "list"
    THEN /\ Len(v.items) = Len(w.items)
         /\ \A n \in 1..Len(v.items) : SameUpToKeyOrder(v.items[n], w.items[n])
    ELSE v = w

\* the two objects have been flattened
BothFlattened == matcher = "flatten_json_for_text" /\ pc = "return"

\* C17: two JSON object payloads that hold the same key/value pairs at every
\* nesting level, with their keys listed in a different order, are flattened
\* to identical strings.
C17_KeyOrderInvariant ==
    (/\ BothFlattened
     /\ SameUpToKeyOrder(json_loads(fn_args[1].text).value,
                         json_loads(fn_args[2].text).value))
    => fn_result[1] = fn_result[2]

\* two objects that differ in the order of their keys, at the top and inside
\* a nested object, were flattened to the same string
C17_Witness ==
    /\ BothFlattened
    /\ fn_args = <<Str(ObjectNested), Str(ObjectNestedSwapped)>>
    /\ fn_result[1] = Returned(<<"a", " ", "c", " ", "1", " ", "2", " ", "d",
                                 " ", "1", " ", "b">>)
    /\ fn_result[2] = fn_result[1]

\* C18: for a JSON array payload of any length, at the top level of the
\* payload or nested inside it, the call returns the space-joined
\* concatenation of the flattenings of its elements in array order, without
\* raising.
C18_ArraysFlattenInOrder ==
    (/\ matcher = "parse_and_convert_specs"
     /\ Len(fn_result) >= 1
     /\ fn_args[1].kind = "str"
     /\ json_loads(fn_args[1].text).ok
     /\ json_loads(fn_args[1].text).value.kind \in {"list", "dict"})
    => fn_result[1]
          = Returned(Join(flatten_json_for_text(json_loads(fn_args[1].text).value)))

-----------------------------------------------------------------------------
(* Claims about specification payloads that are not valid JSON *)

\* the cell is a string that does not parse as JSON
Malformed(cell) == cell.kind = "str" /\ ~json_loads(cell.text).ok

\* parse_and_convert_specs has returned or raised on a malformed cell
FlattenedMalformed ==
    /\ matcher = "parse_and_convert_specs"
    /\ Len(fn_result) >= 1
    /\ Malformed(fn_args[1])

\* load_products has returned or raised on a file that exists and has the
\* extracted_specs column
LoadedFile ==
    /\ matcher = "load_products"
    /\ pc # "call"
    /\ fn_args[1].found
    /\ fn_args[1].has_specs_column

\* the positions of the rows of the file whose cell is malformed
MalformedRows(file) ==
    {pos \in 1..Len(file.rows) : Malformed(file.rows[pos].extracted_specs)}

\* C20: a record whose specification field is not valid JSON never
\* aborts the run and is never dropped from its catalog, the payload being
\* used verbatim as opaque text, in the preprocessing of the embedding
\* matcher and in the loader of the field matcher.
C20_Original ==
    /\ FlattenedMalformed => fn_result[1] = Returned(fn_args[1].text)
    /\ (LoadedFile /\ MalformedRows(fn_args[1]) # {})
       => /\ fn_result[1].outcome = "returned"
          /\ \A pos \in MalformedRows(fn_args[1]) :
                \E n \in 1..Len(fn_result[1].products) :
                   /\ fn_result[1].products[n].id = pos
                   /\ fn_result[1].products[n].extracted_specs
                         = fn_args[1].rows[pos].extracted_specs

-----------------------------------------------------------------------------
(* The token guard inside the embedding matcher *)

\* the candidates of the item just processed that were unclaimed before the
\* step and pass both thresholds
PassingCandidates ==
    {j \in Range(candidate_indices') :
        /\ j \notin matched_store2_indices
        /\ title_row'[j] >= title_threshold
        /\ spec_row'[j] >= spec_threshold}

\* one of the two cleaned spec strings has at most ten characters, or the two
\* strings share a token
OutOfGuardReach(j) ==
    \/ Len(specs1_clean_str') <= MinSpecLen
    \/ Len(specs_clean2[j]) <= MinSpecLen
    \/ TokenSet(specs1_clean_str') \cap TokenSet(specs_clean2[j]) # {}

\* C22: a candidate that passes both thresholds and is unclaimed, and whose
\* pair has a cleaned spec string of at most ten characters (the empty string
\* included) or shares a token, is not discarded by the guard: the item is
\* committed with it or with a candidate of at least the same combined score.
C22_GuardNeedsTwoLongStrings ==
    [][ (matcher = "embedding" /\ i' = i + 1) =>
          \A j \in PassingCandidates :
              OutOfGuardReach(j) =>
                  /\ Len(merged_rows') = Len(merged_rows) + 1
                  /\ LET r == Last(merged_rows')
                     IN  /\ r.index_store1 = i + 1
                         /\ r.index_store2 \in PassingCandidates
                         /\ title_row'[j] + spec_row'[j]
                              <= r.Title_Similarity_Score + r.Specs_Similarity_Score
      ]_vars

\* an item whose long cleaned spec string has no token was committed with a B
\* item whose cleaned spec string is empty
C22_Witness ==
    /\ matcher = "embedding"
    /\ pc = "next"
    /\ specs1_clean_str = SpecsPlain
    /\ merged_rows # <<>>
    /\ Last(merged_rows).index_store1 = i
    /\ specs_clean2[Last(merged_rows).index_store2] = <<>>


\* C28: the embedding matcher never commits a pair whose cleaned spec strings
\* are both longer than ten characters when one of the two strings has no
\* token, whatever the similarity scores of the pair.
C28_TokenlessLongPairNeverCommitted ==
    [][ (matcher = "embedding" /\ i' = i + 1 /\ merged_rows' # merged_rows) =>
          LET r == Last(merged_rows')
              specs2_clean_str == specs_clean2[r.index_store2]
          IN  ~ /\ r.index_store1 = i + 1
                /\ Len(specs1_clean_str') > MinSpecLen
                /\ Len(specs2_clean_str) > MinSpecLen
                /\ \/ TokenSet(specs1_clean_str') = {}
                   \/ TokenSet(specs2_clean_str) = {}
      ]_vars

\* an item whose long cleaned spec string has no token was left unmatched
\* although an unclaimed candidate with a long cleaned spec string has the
\* highest title and spec scores
C28_Witness ==
    /\ matcher = "embedding"
    /\ pc = "next"
    /\ specs1_clean_str = SpecsPlain
    /\ \A n \in 1..Len(merged_rows) : merged_rows[n].index_store1 # i
    /\ \E j \in Range(candidate_indices) :
          /\ j \notin matched_store2_indices
          /\ specs_clean2[j] = Specs16
          /\ title_row[j] = 9
          /\ spec_row[j] = 10


-----------------------------------------------------------------------------
(* The order of catalog A *)

\* the rows committed for the first n items of catalog A
RowsUpTo(rows, n) ==
    SelectSeq(rows, LAMBDA r : r.index_store1 <= n)

\* the number of items of catalog A the second execution has handled
SecondRunHandled == IF pc = "done2" THEN Len(SecondCatalog) ELSE i

\* C29: the rows the embedding matcher commits for the first items of catalog
\* A are exactly the rows its execution on catalog A cut after these items
\* commits, after every pass of that execution (none when the cut catalog
\* has no item and the execution raises), and in the full execution
\* the rows follow the order of catalog A and no row has the B item of an
\* earlier row.
C29_EarlierItemsDecideFirst ==
    (matcher = "embedding" /\ Len(fn_args) = 1) =>
        /\ pc \in {"loop2", "next2", "done2", "raised"} =>
              merged_rows_hi = RowsUpTo(merged_rows, SecondRunHandled)
        /\ \A a, b \in 1..Len(merged_rows) :
              a < b => /\ merged_rows[a].index_store1 < merged_rows[b].index_store1
                       /\ merged_rows[a].index_store2 # merged_rows[b].index_store2

\* both executions are over, the second on a shorter catalog that gave a
\* row, and an item past the cut has among its candidates a B item that
\* passes both thresholds and was committed for an item before the cut
C29_Witness ==
    /\ matcher = "embedding"
    /\ pc = "done2"
    /\ Len(SecondCatalog) < Len(FirstCatalog)
    /\ merged_rows_hi # <<>>
    /\ \E a \in (Len(SecondCatalog) + 1)..Len(FirstCatalog) :
          \E j \in Range(CandidateIndices(FirstCatalog[a].argsort, top_k)) :
             /\ j \in matched_store2_indices_hi
             /\ FirstCatalog[a].title_row[j] >= title_threshold
             /\ FirstCatalog[a].spec_row[j] >= spec_threshold


-----------------------------------------------------------------------------
(* The two phases of the field matcher *)

\* the A record and the B record of a match of the field matcher
RecordA(match) == products1[match.product1]

RecordB(match) == products2[match.product2]

\* C23: a match of the field matcher tagged "Model Name & Category" joins two
\* records of identical normalized model name and identical normalized
\* category, and a match tagged "Category & Specs" joins two records of
\* identical normalized category.
C23_TagsTellSharedFields ==
    matcher = "field" =>
        \A n \in 1..Len(matches) :
            /\ matches[n].match_type \in {"Model Name & Category", "Category & Specs"}
            /\ matches[n].match_type = "Model Name & Category" =>
                  /\ RecordA(matches[n]).norm_model_name
                       = RecordB(matches[n]).norm_model_name
                  /\ RecordA(matches[n]).norm_category
                       = RecordB(matches[n]).norm_category
            /\ matches[n].match_type = "Category & Specs" =>
                  RecordA(matches[n]).norm_category = RecordB(matches[n]).norm_category

\* a finished run that committed a match of each tag
C23_Witness ==
    /\ matcher = "field"
    /\ pc = "done"
    /\ \E n \in 1..Len(matches) : matches[n].match_type = "Model Name & Category"
    /\ \E n \in 1..Len(matches) : matches[n].match_type = "Category & Specs"

\* phase 1 of the field matcher has processed every A record
Phase1Over ==
    /\ matcher = "field"
    /\ \/ pc \in {"phase2", "done"}
       \/ pc = "phase1" /\ p1 = Len(products1)

\* C27: once phase 1 of the field matcher is over, no A record it left
\* unmatched has both the normalized model name and the normalized category of
\* a B record it left unconsumed, and every match of phase 2 joins two records
\* of different normalized model names.
C27_Phase1LeavesNoFullTwin ==
    Phase1Over =>
        /\ \A a \in Range(still_unmatched1) : \A b \in Range(Values(model_name_map)) :
              ~SameModelAndCategory(a, b)
        /\ \A n \in 1..Len(matches) :
              matches[n].match_type = "Category & Specs" =>
                  RecordA(matches[n]).norm_model_name
                    # RecordB(matches[n]).norm_model_name

\* a finished run with a phase-2 match whose A record has the model name of
\* a B record that phase 1 left unconsumed, in another category
C27_Witness ==
    /\ matcher = "field"
    /\ pc = "done"
    /\ \E n \in 1..Len(matches) :
          /\ matches[n].match_type = "Category & Specs"
          /\ \E b \in Range(Values(model_name_map)) :
                products2[b].norm_model_name = RecordA(matches[n]).norm_model_name


-----------------------------------------------------------------------------
(* Missing input files and columns *)

\* the columns the running program expects in both input files
ExpectedColumns ==
    IF matcher = "field" THEN FieldColumns ELSE EmbeddingColumns

\* one of the two input files does not exist or lacks an expected column
InputMissing ==
    /\ Len(fn_args) = 2
    /\ \E n \in 1..2 :
          \/ ~fn_args[n].found
          \/ ~(ExpectedColumns \subseteq fn_args[n].columns)

\* C21: when an input file does not exist or lacks an expected column, the
\* program never enters the matching, commits no match and writes no output
\* file.
C21_MissingInputAborts ==
    (matcher \in {"field", "embedding"} /\ InputMissing) =>
        /\ pc \in {"load1", "load2", "loaded", "read", "exit", "raised"}
        /\ matches = <<>>
        /\ merged_rows = <<>>

\* the field matcher has written its output file from two files without the
\* Category column
C21_OutputFromIncompleteFiles ==
    /\ matcher = "field"
    /\ pc = "written"
    /\ InputMissing
    /\ matches # <<>>


-----------------------------------------------------------------------------
(* The concurrency limit of the scrapers *)

\* C24: in a scraper the number of pages open at the same moment is at most
\* the CONCURRENCY_LIMIT of the scraper.
C24_PagesWithinLimit ==
    matcher \in {"neptun_scraper", "tehnomarket_scraper"} =>
        open_pages <= ConcurrencyLimit

\* every coroutine inside the semaphore holds a listing page and a product
\* page, and no page was left open by an exception
C24_TwoPagesPerCoroutine ==
    /\ matcher \in {"neptun_scraper", "tehnomarket_scraper"}
    /\ semaphore = 0
    /\ open_pages = PagesHeld
    /\ open_pages = 2 * ConcurrencyLimit


-----------------------------------------------------------------------------
(* The batches of the annotation stages *)

\* the coroutines whose request is with the annotation service
InFlight == {t \in 1..Len(tasks) : tasks[t].pc = "request"}

\* the rows of the coroutines of the current batch
BatchRows == {tasks[t].index : t \in 1..Len(tasks)}

\* what a coroutine of the stage can return
ResultValues ==
    {AnswerOf(matcher).value, MissingInputLabel(matcher).value,
     ErrorLabel(matcher).value, RetriesFailedLabel(matcher).value}

\* C25: in an annotation stage at most CONCURRENT_BATCH_SIZE requests are in
\* flight, and while the coroutines of a batch exist every row a request was
\* sent for in an earlier batch holds a returned result, in the table and in
\* the saved file alike.
C25_BatchesDoNotOverlap ==
    matcher \in AnnotationPrograms =>
        /\ Cardinality(InFlight) <= CONCURRENT_BATCH_SIZE
        /\ Len(tasks) <= CONCURRENT_BATCH_SIZE
        /\ \A r \in sent \ BatchRows :
              tasks # <<>> =>
                  /\ df[r].value \in ResultValues
                  /\ saved[r] = df[r]

\* a request of the second batch is in flight after a full first batch
C25_Witness ==
    /\ matcher \in {"categorizer", "specs_extraction", "model_name_extraction"}
    /\ batch_start > 0
    /\ InFlight # {}
    /\ Cardinality(sent \ BatchRows) = CONCURRENT_BATCH_SIZE

\* a row that is done in the output file a stage is resumed from
IsDone(row) ==
    CASE matcher = "specs_extraction" -> row.value = "complete"
      [] matcher \in {"categorizer_continuer", "model_name_extraction"} ->
             row.value # ""
      [] OTHER -> FALSE

\* C26: when a stage is resumed from its output file, no request is sent for
\* a row that is done in the file (extraction_status "complete" in
\* specs_extraction, a non-empty Category in the categorizer continuer), and
\* no step changes the stored values of the row.
C26_DoneRowsUntouched ==
    [][ \A r \in 1..Len(saved) :
            IsDone(saved[r]) => /\ saved'[r] = saved[r]
                                /\ r \in sent' => r \in sent
      ]_vars

\* the coroutine of the row in a run of the retry function
TheCall == tasks[1]

\* the number of requests the coroutine has sent so far, while it is in its
\* loop
RequestsSent ==
    IF TheCall.pc = "request" THEN TheCall.attempt + 1
    ELSE IF TheCall.pc = "sleep" THEN TheCall.attempt + 1
    ELSE 0

\* the requests and the return of the coroutine fit together in every state
RetryWithinBudget ==
    tasks # <<>> =>
        /\ TheCall.pc \in {"request", "sleep"} =>
              /\ RequestsSent <= MAX_RETRIES
              /\ TheCall.last \in {"none", "retryable"}
              /\ TheCall.last = "none" => RequestsSent = 1
        /\ TheCall.pc = "returned" =>
              /\ TheCall.last = "answer" => TheCall.result = AnswerOf(matcher)
              /\ TheCall.last = "other" => TheCall.result = ErrorLabel(matcher)
              /\ TheCall.last = "retryable" =>
                    TheCall.result = RetriesFailedLabel(matcher)
              /\ TheCall.last = "none" =>
                    /\ TheCall.result = MissingInputLabel(matcher)
                    /\ sent = {}

\* a step in which the coroutine returns: from a request with the answer or
\* with the error label, or after the sleep that follows failure MAX_RETRIES
ReturnsInTime ==
    (tasks # <<>> /\ tasks' # <<>> /\ TheCall.pc # "returned"
        /\ tasks'[1].pc = "returned") =>
        CASE tasks'[1].last \in {"answer", "other"} -> TheCall.pc = "request"
          [] tasks'[1].last = "retryable" ->
                 /\ TheCall.pc = "sleep"
                 /\ RequestsSent = MAX_RETRIES
          [] OTHER -> TheCall.pc = "created"

\* C30: for one row, the retry function sends at most MAX_RETRIES requests
\* and always returns: the answer of the first request that succeeds, the
\* error label straight after the first error that is not retryable, and the
\* error label after MAX_RETRIES retryable failures.
C30_RetryLoopTerminates ==
    /\ []RetryWithinBudget
    /\ [][ReturnsInTime]_vars
    /\ (tasks # <<>> /\ TheCall.pc = "created")
           ~> (tasks # <<>> /\ TheCall.pc = "returned")

\* the coroutine has returned the error label after MAX_RETRIES retryable
\* failures
C30_Witness ==
    /\ matcher \in AnnotationPrograms
    /\ tasks # <<>>
    /\ TheCall.pc = "returned"
    /\ TheCall.last = "retryable"
    /\ TheCall.result = RetriesFailedLabel(matcher)
    /\ sent = {1}

====
